---- MODULE Spec2Model ----
(***************************************************************************)
(* A model of the diagnostic core of k8s-doctor-mcp: the retry executor    *)
(* (utils/retry.ts), the pod and crash-loop diagnostics                    *)
(* (diagnostics/pod-diagnostics.ts), the log analyzer                      *)
(* (analyzers/log-analyzer.ts) and the cluster health diagnostics.         *)
(***************************************************************************)
EXTENDS Integers, Sequences, FiniteSets, TLC

VARIABLES
    entry,   \* the entry point this behaviour runs
    env,     \* the call's arguments and the data the cluster API serves
    rt,      \* one withRetry activation (or direct call) per external fetch
    pc,      \* position of the entry point's async function
    loc,     \* the entry point's local variables
    out      \* what the entry point's promise settled to

vars == <<entry, env, rt, pc, loc, out>>

\* ------------------------------------------------------------------ bounds
MaxAttempts == 5

\* ------------------------------------------------------------------ errors
None == [none |-> TRUE]

ErrorCodes == {"", "ECONNREFUSED", "ETIMEDOUT", "ENOTFOUND"}
\* 0 stands for an error object without a statusCode field
StatusCodes == {0, 399, 400, 404, 499, 500, 503}

\* the errors an invocation can reject with; `at` is the number of the
\* invocation that raised it (the identity of the error object)
ErrorsAt(n) == {[code |-> c, statusCode |-> s, at |-> n] : c \in ErrorCodes, s \in StatusCodes}

Is4xx(error) == error.statusCode >= 400 /\ error.statusCode < 500

\* --------------------------------------------------------------- retry.ts
DefaultShouldRetry(error) ==
    IF error.code = "ECONNREFUSED" THEN TRUE
    ELSE IF error.code = "ETIMEDOUT" THEN TRUE
    ELSE IF error.code = "ENOTFOUND" THEN TRUE
    ELSE IF error.statusCode # 0 /\ error.statusCode >= 500 THEN TRUE
    ELSE IF error.statusCode # 0 /\ error.statusCode >= 400 /\ error.statusCode < 500 THEN FALSE
    ELSE TRUE

\* the shouldRetry callback analyzeResourceUsage passes for the metrics fetch
MetricsShouldRetry(error) ==
    IF error.statusCode = 404 THEN FALSE ELSE TRUE

ShouldRetry(policy, error) ==
    IF policy = "metrics" THEN MetricsShouldRetry(error) ELSE DefaultShouldRetry(error)

OptionKeys == {"maxAttempts", "initialDelay", "maxDelay", "backoffMultiplier", "shouldRetry"}

DEFAULT_OPTIONS ==
    [maxAttempts |-> 3, initialDelay |-> 1000, maxDelay |-> 10000,
     backoffMultiplier |-> 2, shouldRetry |-> "default"]

\* const opts = { ...DEFAULT_OPTIONS, ...options }
MergeOptions(options) ==
    [k \in OptionKeys |-> IF k \in DOMAIN options THEN options[k] ELSE DEFAULT_OPTIONS[k]]

Min(a, b) == IF a <= b THEN a ELSE b

\* delay = Math.min(delay * opts.backoffMultiplier, opts.maxDelay)
NextDelay(delay, opts) == Min(delay * opts.backoffMultiplier, opts.maxDelay)

\* an activation that has not been called
IdleRetry ==
    [pc |-> "idle", opts |-> DEFAULT_OPTIONS, attempt |-> 0, delay |-> 0, calls |-> 0,
     sleeps |-> <<>>, logs |-> <<>>, lastError |-> None, settled |-> None]

\* a loop that counts its attempts from 0
CallWithRetry_FromZero(options) ==
    LET opts == MergeOptions(options) IN
    [pc |-> "inflight", opts |-> opts, attempt |-> 0, delay |-> opts.initialDelay,
     calls |-> 1, sleeps |-> <<>>, logs |-> <<>>, lastError |-> None, settled |-> None]

\* withRetry(fn, options) up to its first await: the options are merged, the
\* loop is entered and fn is invoked; with maxAttempts < 1 the loop body never
\* runs and the undefined lastError is thrown
CallWithRetry(options) ==
    LET opts == MergeOptions(options) IN
    IF 1 <= opts.maxAttempts
    THEN [pc |-> "inflight", opts |-> opts, attempt |-> 1, delay |-> opts.initialDelay,
          calls |-> 1, sleeps |-> <<>>, logs |-> <<>>, lastError |-> None, settled |-> None]
    ELSE [pc |-> "done", opts |-> opts, attempt |-> 1, delay |-> opts.initialDelay,
          calls |-> 0, sleeps |-> <<>>, logs |-> <<"all-failed">>, lastError |-> None,
          settled |-> [kind |-> "thrown", error |-> None]]

\* `return await fn()` when fn resolves
OnResolve(r) ==
    [r EXCEPT !.pc = "done", !.settled = [kind |-> "ok", at |-> r.calls]]

\* a catch block that keeps the first error it saw as lastError
OnReject_KeepFirst(r, error) ==
    LET kept == IF r.lastError = None THEN error ELSE r.lastError IN
    IF r.attempt = r.opts.maxAttempts
    THEN [r EXCEPT !.pc = "done", !.lastError = kept,
                   !.logs = Append(@, "all-failed"),
                   !.settled = [kind |-> "thrown", error |-> kept]]
    ELSE IF ~ShouldRetry(r.opts.shouldRetry, error)
    THEN [r EXCEPT !.pc = "done", !.lastError = kept,
                   !.logs = Append(@, "non-retryable"),
                   !.settled = [kind |-> "thrown", error |-> error]]
    ELSE [r EXCEPT !.pc = "sleeping", !.lastError = kept,
                   !.logs = Append(@, "retrying"),
                   !.sleeps = Append(@, r.delay)]

\* the catch block of the loop, for the error of the invocation in flight
OnReject(r, error) ==
    IF r.attempt = r.opts.maxAttempts
    THEN [r EXCEPT !.pc = "done", !.lastError = error,
                   !.logs = Append(@, "all-failed"),
                   !.settled = [kind |-> "thrown", error |-> error]]
    ELSE IF ~ShouldRetry(r.opts.shouldRetry, error)
    THEN [r EXCEPT !.pc = "done", !.lastError = error,
                   !.logs = Append(@, "non-retryable"),
                   !.settled = [kind |-> "thrown", error |-> error]]
    ELSE [r EXCEPT !.pc = "sleeping", !.lastError = error,
                   !.logs = Append(@, "retrying"),
                   !.sleeps = Append(@, r.delay)]

\* the timer of sleep(delay) fires: the delay is advanced and the loop
\* iterates; while attempt <= maxAttempts fn is invoked again, otherwise the
\* code after the loop throws lastError
OnWake(r) ==
    IF r.attempt + 1 <= r.opts.maxAttempts
    THEN [r EXCEPT !.pc = "inflight", !.delay = NextDelay(r.delay, r.opts),
                   !.attempt = @ + 1, !.calls = @ + 1]
    ELSE [r EXCEPT !.pc = "done", !.delay = NextDelay(r.delay, r.opts),
                   !.attempt = @ + 1, !.logs = Append(@, "all-failed"),
                   !.settled = [kind |-> "thrown", error |-> r.lastError]]

\* a direct `await api.call()` without the executor, as one activation
CallDirect ==
    [IdleRetry EXCEPT !.pc = "inflight", !.opts = [DEFAULT_OPTIONS EXCEPT !.maxAttempts = 1],
                      !.attempt = 1, !.calls = 1]

FetchIds == {"op", "pod", "events", "metrics", "log", "nodes", "pods"}

NoFetch == [f \in FetchIds |-> IdleRetry]

\* ------------------------------------------------- withRetry on its own
InitialDelays == {1, 2, 5}
MaxDelays == {2, 4}
Multipliers == {1, 2, 3}

RetryOptionChoices ==
    {[maxAttempts |-> m, initialDelay |-> i, maxDelay |-> d, backoffMultiplier |-> b] :
        m \in 0..MaxAttempts, i \in InitialDelays, d \in MaxDelays, b \in Multipliers}
    \cup {[maxAttempts |-> m] : m \in 1..MaxAttempts}
    \cup {<< >>}

InitRetry ==
    /\ entry = "withRetry"
    /\ env \in {[options |-> o] : o \in RetryOptionChoices}
    /\ rt = NoFetch
    /\ pc = "start"
    /\ loc = None
    /\ out = None

RetryCall ==
    /\ entry = "withRetry" /\ pc = "start"
    /\ rt' = [rt EXCEPT !["op"] = CallWithRetry(env.options)]
    /\ pc' = "await"
    /\ UNCHANGED <<entry, env, loc, out>>

\* the invocation in flight of fetch f resolves
FetchResolves(f) ==
    /\ rt[f].pc = "inflight"
    /\ rt' = [rt EXCEPT ![f] = OnResolve(rt[f])]
    /\ UNCHANGED <<entry, env, pc, loc, out>>

\* the invocation in flight of fetch f rejects with some error
FetchRejects(f, errors) ==
    /\ rt[f].pc = "inflight"
    /\ \E error \in errors :
          rt' = [rt EXCEPT ![f] = OnReject(rt[f], error)]
    /\ UNCHANGED <<entry, env, pc, loc, out>>

FetchWakes(f) ==
    /\ rt[f].pc = "sleeping"
    /\ rt' = [rt EXCEPT ![f] = OnWake(rt[f])]
    /\ UNCHANGED <<entry, env, pc, loc, out>>

RetryResolves == entry = "withRetry" /\ FetchResolves("op")
RetryRejects == entry = "withRetry" /\ FetchRejects("op", ErrorsAt(rt["op"].calls))
RetryWakes == entry = "withRetry" /\ FetchWakes("op")

\* the caller's await of the withRetry promise
RetryReturn ==
    /\ entry = "withRetry" /\ pc = "await"
    /\ rt["op"].pc = "done"
    /\ out' = rt["op"].settled
    /\ pc' = "done"
    /\ UNCHANGED <<entry, env, rt, loc>>

NextRetry == RetryCall \/ RetryResolves \/ RetryRejects \/ RetryWakes \/ RetryReturn

SpecRetry == InitRetry /\ [][NextRetry]_vars

\* ---------------------------------------------------- pod-diagnostics.ts
\* The event messages of the model, each with the substrings the detectors
\* test for that it contains (String.prototype.includes is case-sensitive).
Substrings(text) ==
    CASE text = "Failed to pull image \"web:v9\": manifest unknown: not found" -> {"pull", "not found", "manifest unknown"}
      [] text = "Failed to pull image \"web:v9\": unauthorized: authentication required" -> {"pull", "unauthorized", "authentication"}
      [] text = "Failed to pull image \"web:v9\": i/o timeout" -> {"pull", "timeout"}
      [] text = "Failed to pull image \"web:v9\": unexpected EOF" -> {"pull"}
      [] text = "Failed to pull image \"web:v9\": unauthorized: i/o timeout fetching token" ->
            {"pull", "unauthorized", "timeout"}
      [] text = "Failed to pull image \"web:v9\": not found or unauthorized" ->
            {"pull", "not found", "unauthorized"}
      [] text = "Back-off pulling image \"web:v9\"" -> {"pull"}
      [] text = "Error: ErrImagePull" -> {}
      [] text = "Unable to attach or mount volumes: timed out waiting for the condition" -> {"mount", "volume"}
      [] text = "network plugin is not ready: CNI config uninitialized" -> {"network", "CNI"}
      [] text = "Started container web" -> {}
      [] OTHER -> {}

Includes(text, substring) == substring \in Substrings(text)

Some(v) == [some |-> TRUE, v |-> v]
IsSome(o) == o # None

RECURSIVE SeqSum(_)
SeqSum(s) == IF s = <<>> THEN 0 ELSE Head(s) + SeqSum(Tail(s))

RECURSIVE Concat(_)
Concat(ss) == IF ss = <<>> THEN <<>> ELSE Head(ss) \o Concat(Tail(ss))

RECURSIVE Filter(_, _)
Filter(s, keep) ==
    IF s = <<>> THEN <<>>
    ELSE IF Head(s) \in keep THEN <<Head(s)>> \o Filter(Tail(s), keep)
    ELSE Filter(Tail(s), keep)

Range(s) == {s[i] : i \in 1..Len(s)}

PodResource(pod) == [kind |-> "Pod", name |-> pod.name, namespace |-> pod.namespace]

\* parseContainerStatuses: s.ready || false, s.restartCount || 0, s.state || {}
NoState == [running |-> None, waiting |-> None, terminated |-> None]

ParseContainerStatus(s) ==
    [name |-> s.name, ready |-> s.ready, restartCount |-> s.restartCount,
     state |-> IF s.state = None THEN NoState ELSE s.state,
     lastState |-> s.lastState, image |-> s.image]

parseContainerStatuses(statuses) == [i \in 1..Len(statuses) |-> ParseContainerStatus(statuses[i])]

\* parseEvents: map, then sort by lastTimestamp, most recent first (the sort
\* is stable: events of equal timestamp keep their order)
ParseEvent(e) ==
    [type |-> e.type, reason |-> e.reason, message |-> e.message,
     count |-> IF e.count = 0 THEN 1 ELSE e.count,
     lastTimestamp |-> e.lastTimestamp, source |-> e.source]

RECURSIVE InsertByTime(_, _)
InsertByTime(e, sorted) ==
    IF sorted = <<>> THEN <<e>>
    ELSE IF Head(sorted).lastTimestamp < e.lastTimestamp THEN <<e>> \o sorted
    ELSE <<Head(sorted)>> \o InsertByTime(e, Tail(sorted))

RECURSIVE SortByTimeDesc(_)
SortByTimeDesc(es) ==
    IF es = <<>> THEN <<>>
    ELSE InsertByTime(es[Len(es)], SortByTimeDesc(SubSeq(es, 1, Len(es) - 1)))

parseEvents_Unsorted(items) == [i \in 1..Len(items) |-> ParseEvent(items[i])]

parseEvents(items) == SortByTimeDesc([i \in 1..Len(items) |-> ParseEvent(items[i])])

getWaitingSolution_Generic(reason) == "Check logs and events to identify the cause"

getWaitingSolution(reason) ==
    IF reason = "CreateContainerConfigError" THEN "Check container configuration (ConfigMap, Secret, etc.)"
    ELSE IF reason = "InvalidImageName" THEN "Verify image name format"
    ELSE IF reason = "CreateContainerError" THEN "Check container creation settings"
    ELSE "Check logs and events to identify the cause"

getTerminatedSolution(exitCode) ==
    IF exitCode = 1 THEN <<"Check application logs to fix errors">>
    ELSE IF exitCode = 137 THEN <<"Increase memory limit (OOM killed)">>
    ELSE IF exitCode = 143 THEN <<"Verify graceful shutdown implementation">>
    ELSE IF exitCode = 126 THEN <<"Check executable permissions (chmod +x)">>
    ELSE IF exitCode = 127 THEN <<"Verify CMD/ENTRYPOINT path">>
    ELSE <<"Check logs for exit code ", ToString(exitCode)>>

\* the issues detectContainerIssues pushes for one container
ContainerIssues(pod, container) ==
    LET waiting == container.state.waiting
        terminated == container.state.terminated
        isPull == IsSome(waiting) /\ waiting.reason \in {"ErrImagePull", "ImagePullBackOff"}
        waitingIssue ==
            IF IsSome(waiting) /\ ~isPull
            THEN << [type |-> <<"Container Waiting: ", waiting.reason>>,
                     severity |-> "high",
                     message |-> <<"Container ", container.name, " is in ", waiting.reason, " state">>,
                     rootCause |-> <<IF waiting.message = "" THEN "Unknown reason" ELSE waiting.message>>,
                     solution |-> <<getWaitingSolution(waiting.reason)>>,
                     resource |-> PodResource(pod),
                     relatedEvents |-> None, relevantLogs |-> None] >>
            ELSE <<>>
        terminatedIssue ==
            \* `continue` for an image pull wait skips this check as well
            IF ~isPull /\ IsSome(terminated) /\ terminated.exitCode # 0
            THEN << [type |-> <<"Container Terminated">>,
                     severity |-> "high",
                     message |-> <<"Container ", container.name, " terminated with exit code ",
                                   ToString(terminated.exitCode)>>,
                     rootCause |-> <<IF terminated.reason = "" THEN "Unknown reason" ELSE terminated.reason>>,
                     solution |-> getTerminatedSolution(terminated.exitCode),
                     resource |-> PodResource(pod),
                     relatedEvents |-> None, relevantLogs |-> None] >>
            ELSE <<>>
    IN waitingIssue \o terminatedIssue

detectContainerIssues(pod, containers) ==
    Concat([i \in 1..Len(containers) |-> ContainerIssues(pod, containers[i])])

IsImagePullEvent(e) == e.reason = "Failed" /\ Includes(e.message, "pull")

detectImagePullIssues(pod, events) ==
    LET imagePullEvents == Filter(events, {e \in Range(events) : IsImagePullEvent(e)}) IN
    IF Len(imagePullEvents) > 0
    THEN LET event == imagePullEvents[1]
             class == IF Includes(event.message, "not found") \/ Includes(event.message, "manifest unknown")
                        THEN "notfound"
                      ELSE IF Includes(event.message, "unauthorized") \/ Includes(event.message, "authentication")
                        THEN "auth"
                      ELSE IF Includes(event.message, "timeout") THEN "timeout"
                      ELSE "other"
         IN << [type |-> <<"ImagePullBackOff">>,
                severity |-> "critical",
                message |-> <<"Cannot pull container image">>,
                rootCause |-> << CASE class = "notfound" -> "Image or tag does not exist"
                                   [] class = "auth" -> "Image registry authentication failed"
                                   [] class = "timeout" -> "Network timeout - Cannot access registry"
                                   [] OTHER -> "Cannot download image" >>,
                solution |-> << CASE class = "notfound" -> "1. Verify image name and tag 2. Test locally with docker pull <image>"
                                  [] class = "auth" -> "kubectl create secret docker-registry regcred; add imagePullSecrets"
                                  [] class = "timeout" -> "1. Check cluster network connectivity 2. Verify firewall/proxy settings 3. Verify registry URL is correct"
                                  [] OTHER -> "" >>,
                resource |-> PodResource(pod),
                relatedEvents |-> Some(<<event>>), relevantLogs |-> None] >>
    ELSE <<>>

EventIssue(pod, event, type, message, solution) ==
    [type |-> <<type>>, severity |-> "high", message |-> <<message>>,
     rootCause |-> <<event.message>>, solution |-> <<solution>>,
     resource |-> PodResource(pod),
     relatedEvents |-> Some(<<event>>), relevantLogs |-> None]

detectVolumeIssues(pod, events) ==
    LET volumeEvents == Filter(events, {e \in Range(events) : Includes(e.message, "volume") \/ Includes(e.message, "mount")})
        warnings == Filter(volumeEvents, {e \in Range(volumeEvents) : e.type = "Warning"})
    IN [i \in 1..Len(warnings) |->
          EventIssue(pod, warnings[i], "Volume Mount Issue", "Volume mount failed",
                     "1. Verify PVC is in Bound state 2. Verify storage class is correct 3. Check status with kubectl describe pvc <pvc-name>")]

detectNetworkIssues(pod, events) ==
    LET networkEvents == Filter(events, {e \in Range(events) : Includes(e.message, "network") \/ Includes(e.message, "CNI")})
        warnings == Filter(networkEvents, {e \in Range(networkEvents) : e.type = "Warning"})
    IN [i \in 1..Len(warnings) |->
          EventIssue(pod, warnings[i], "Network Configuration Issue", "Network configuration problem",
                     "1. Check CNI plugin status 2. Check network policy 3. Verify Pod CIDR range")]

\* A quantity string ("500m", "128Mi", "2") is its number and its suffix;
\* `x || '0'` makes an absent quantity the string "0".
Zero == [num |-> 0, unit |-> ""]
OrZero(q) == IF q = None THEN Zero ELSE q

parseCPU(cpu) == IF cpu.unit = "m" THEN cpu.num ELSE cpu.num * 1000

parseMemory(mem) ==
    CASE mem.unit = "Ki" -> mem.num * 1024
      [] mem.unit = "Mi" -> mem.num * 1024 * 1024
      [] mem.unit = "Gi" -> mem.num * 1024 * 1024 * 1024
      [] mem.unit = "K" -> mem.num * 1000
      [] mem.unit = "M" -> mem.num * 1000 * 1000
      [] mem.unit = "G" -> mem.num * 1000 * 1000 * 1000
      [] OTHER -> mem.num

\* nanocores are divided by 1,000,000 (the model's nanocore values are whole
\* millicores)
parseMetricCPU(cpu) ==
    IF cpu.unit = "n" THEN cpu.num \div 1000000
    ELSE IF cpu.unit = "m" THEN cpu.num
    ELSE cpu.num * 1000

parseMetricMemory(mem) ==
    IF mem.unit = "Ki" THEN mem.num * 1024
    ELSE IF mem.unit = "Mi" THEN mem.num * 1024 * 1024
    ELSE IF mem.unit = "Gi" THEN mem.num * 1024 * 1024 * 1024
    ELSE mem.num

\* (current / limit) * 100, kept as the exact fraction num / den
Percent(current, limit) == [num |-> current * 100, den |-> limit]
\* a strict comparison with the threshold
AtLeast_Strict(percent, threshold) == percent.num > threshold * percent.den

\* usagePercent >= threshold
AtLeast(percent, threshold) == percent.num >= threshold * percent.den
\* toFixed(1)
ToFixed1(percent) ==
    LET tenths == (percent.num * 20 + percent.den) \div (2 * percent.den)
    IN <<ToString(tenths \div 10), ".", ToString(tenths % 10)>>
\* Math.ceil(n / d) for d > 0
CeilDiv(n, d) == (n + d - 1) \div d

\* the first container's values instead of the sums
SpecTotals_FirstContainer(pod) ==
    LET cs == SubSeq(pod.containers, 1, Min(1, Len(pod.containers))) IN
    [cpuRequest |-> SeqSum([i \in 1..Len(cs) |-> parseCPU(OrZero(cs[i].requests.cpu))]),
     cpuLimit |-> SeqSum([i \in 1..Len(cs) |-> parseCPU(OrZero(cs[i].limits.cpu))]),
     memRequest |-> SeqSum([i \in 1..Len(cs) |-> parseMemory(OrZero(cs[i].requests.memory))]),
     memLimit |-> SeqSum([i \in 1..Len(cs) |-> parseMemory(OrZero(cs[i].limits.memory))])]

\* the sums over pod.spec.containers (the part of analyzeResourceUsage before
\* the metrics fetch)
SpecTotals(pod) ==
    LET cs == pod.containers IN
    [cpuRequest |-> SeqSum([i \in 1..Len(cs) |-> parseCPU(OrZero(cs[i].requests.cpu))]),
     cpuLimit |-> SeqSum([i \in 1..Len(cs) |-> parseCPU(OrZero(cs[i].limits.cpu))]),
     memRequest |-> SeqSum([i \in 1..Len(cs) |-> parseMemory(OrZero(cs[i].requests.memory))]),
     memLimit |-> SeqSum([i \in 1..Len(cs) |-> parseMemory(OrZero(cs[i].limits.memory))])]

\* metrics.items?.find(item => item.metadata?.name === podName)
FindPodMetric(items, podName) ==
    LET hits == {i \in 1..Len(items) : items[i].name = podName} IN
    IF hits = {} THEN None
    ELSE items[CHOOSE i \in hits : \A j \in hits : i <= j]

\* the usage read off the metrics response: Some(list response) when the fetch
\* succeeded, None when there is no metricsApi or the fetch failed
CurrentUsage(metrics, podName) ==
    IF metrics = None THEN None
    ELSE LET podMetric == FindPodMetric(metrics.v, podName) IN
         IF podMetric = None THEN None
         ELSE LET cs == podMetric.containers IN
              Some([cpu |-> SeqSum([i \in 1..Len(cs) |->
                                IF cs[i].usage.cpu = None THEN 0 ELSE parseMetricCPU(cs[i].usage.cpu)]),
                    memory |-> SeqSum([i \in 1..Len(cs) |->
                                IF cs[i].usage.memory = None THEN 0 ELSE parseMetricMemory(cs[i].usage.memory)])])

\* usage variables that start at 0 instead of undefined
ResourceUsageOf_ZeroDefault(pod, podName, metrics) ==
    LET t == SpecTotals(pod)
        found == CurrentUsage(metrics, podName)
        usage == IF found = None THEN Some([cpu |-> 0, memory |-> 0]) ELSE found
        cpuUsagePercent == IF t.cpuLimit > 0 THEN Some(Percent(usage.v.cpu, t.cpuLimit)) ELSE None
        memUsagePercent == IF t.memLimit > 0 THEN Some(Percent(usage.v.memory, t.memLimit)) ELSE None
    IN [cpu |-> [current |-> Some(usage.v.cpu),
                 requested |-> t.cpuRequest, limit |-> t.cpuLimit,
                 usagePercent |-> cpuUsagePercent,
                 isThrottled |-> cpuUsagePercent # None /\ AtLeast(cpuUsagePercent.v, 80)],
        memory |-> [current |-> Some(usage.v.memory),
                    requested |-> t.memRequest, limit |-> t.memLimit,
                    usagePercent |-> memUsagePercent,
                    isOOMRisk |-> memUsagePercent # None /\ AtLeast(memUsagePercent.v, 90)]]

\* the ResourceUsage analyzeResourceUsage returns
ResourceUsageOf(pod, podName, metrics) ==
    LET t == SpecTotals(pod)
        usage == CurrentUsage(metrics, podName)
        cpuUsagePercent == IF usage # None /\ t.cpuLimit > 0
                           THEN Some(Percent(usage.v.cpu, t.cpuLimit)) ELSE None
        memUsagePercent == IF usage # None /\ t.memLimit > 0
                           THEN Some(Percent(usage.v.memory, t.memLimit)) ELSE None
    IN [cpu |-> [current |-> IF usage = None THEN None ELSE Some(usage.v.cpu),
                 requested |-> t.cpuRequest, limit |-> t.cpuLimit,
                 usagePercent |-> cpuUsagePercent,
                 isThrottled |-> cpuUsagePercent # None /\ AtLeast(cpuUsagePercent.v, 80)],
        memory |-> [current |-> IF usage = None THEN None ELSE Some(usage.v.memory),
                    requested |-> t.memRequest, limit |-> t.memLimit,
                    usagePercent |-> memUsagePercent,
                    isOOMRisk |-> memUsagePercent # None /\ AtLeast(memUsagePercent.v, 90)]]

ResourceIssue(pod, type, severity, message, rootCause, solution) ==
    [type |-> <<type>>, severity |-> severity, message |-> message,
     rootCause |-> <<rootCause>>, solution |-> solution,
     resource |-> PodResource(pod), relatedEvents |-> None, relevantLogs |-> None]

detectResourceIssues(pod, resources) ==
    LET cpu == resources.cpu
        memory == resources.memory
        Mi == 1024 * 1024
    IN  (IF cpu.isThrottled /\ cpu.usagePercent # None
         THEN << ResourceIssue(pod, "High CPU Usage", "high",
                    <<"CPU usage is high (">> \o ToFixed1(cpu.usagePercent.v) \o <<"%)">>,
                    "CPU limit may be too low for current workload",
                    <<"Increase CPU limit or optimize application: cpu: ",
                      ToString(CeilDiv((IF cpu.limit = 0 THEN 1000 ELSE cpu.limit) * 3, 2)), "m">>) >>
         ELSE <<>>)
     \o (IF memory.isOOMRisk /\ memory.usagePercent # None
         THEN << ResourceIssue(pod, "OOM Risk", "critical",
                    <<"Memory usage is critically high (">> \o ToFixed1(memory.usagePercent.v) \o <<"%)">>,
                    "Pod is at risk of OOM kill - memory usage exceeds 90% of limit",
                    <<"Increase memory limit immediately: memory: ",
                      ToString(CeilDiv((IF memory.limit = 0 THEN 512 * Mi ELSE memory.limit) * 3, 2 * Mi)), "Mi">>) >>
         ELSE <<>>)
     \o (IF cpu.limit = 0
         THEN << ResourceIssue(pod, "Missing CPU Limit", "medium", <<"CPU limit is not set">>,
                    "CPU usage can increase without limit",
                    <<"resources: limits: cpu: 1000m requests: cpu: 100m">>) >>
         ELSE <<>>)
     \o (IF memory.limit = 0
         THEN << ResourceIssue(pod, "Missing Memory Limit", "high", <<"Memory limit is not set">>,
                    "Memory leak can affect entire node",
                    <<"resources: limits: memory: 512Mi requests: memory: 128Mi">>) >>
         ELSE <<>>)

SeverityWeight(severity) ==
    CASE severity = "critical" -> 30
      [] severity = "high" -> 20
      [] severity = "medium" -> 10
      [] severity = "low" -> 5
      [] OTHER -> 0

Max(a, b) == IF a >= b THEN a ELSE b

\* the deductions without the clamp
calculateHealthScore_NoClamp(pod, issues) ==
    LET phaseDeduction == CASE pod.phase = "Failed" -> 100
                            [] pod.phase = "Pending" -> 30
                            [] pod.phase = "Unknown" -> 50
                            [] OTHER -> 0
    IN 100 - phaseDeduction
           - SeqSum([i \in 1..Len(issues) |-> SeverityWeight(issues[i].severity)])

calculateHealthScore(pod, issues) ==
    LET phaseDeduction == CASE pod.phase = "Failed" -> 100
                            [] pod.phase = "Pending" -> 30
                            [] pod.phase = "Unknown" -> 50
                            [] OTHER -> 0
        score == 100 - phaseDeduction
                     - SeqSum([i \in 1..Len(issues) |-> SeverityWeight(issues[i].severity)])
    IN Max(0, Min(100, score))

CountSeverity(issues, severity) ==
    Cardinality({i \in 1..Len(issues) : issues[i].severity = severity})

generatePodSummary(pod, issues, healthScore) ==
    [name |-> pod.name,
     phase |-> IF pod.phase = "" THEN "Unknown" ELSE pod.phase,
     ready |-> Cardinality({i \in 1..Len(pod.containerStatuses) : pod.containerStatuses[i].ready}),
     containerCount |-> Len(pod.containers),
     health |-> healthScore,
     issueCount |-> Len(issues),
     critical |-> CountSeverity(issues, "critical"),
     high |-> CountSeverity(issues, "high")]

\* ------------------------------------------------ the cluster's data
PodName == "web"
Namespace == "prod"

Running == [running |-> [startedAt |-> "t0"], waiting |-> None, terminated |-> None]
Waiting(reason, message) ==
    [running |-> None, waiting |-> [reason |-> reason, message |-> message], terminated |-> None]
Terminated(exitCode, reason) ==
    [running |-> None, waiting |-> None, terminated |-> [exitCode |-> exitCode, reason |-> reason]]

\* a V1ContainerStatus; lastExit is lastState.terminated.exitCode, or None
ApiStatus(name, restartCount, state, lastExit) ==
    [name |-> name, ready |-> state = Running, restartCount |-> restartCount, state |-> state,
     lastState |-> IF lastExit = None THEN None
                   ELSE [terminated |-> [exitCode |-> lastExit.v, reason |-> "Error"]],
     image |-> "web:v9"]

PodStatusChoices ==
    { ApiStatus("app", 0, Running, None),
      ApiStatus("app", 6, Waiting("CrashLoopBackOff", "back-off 5m0s restarting failed container"), Some(137)),
      ApiStatus("app", 0, Waiting("ErrImagePull", ""), None),
      ApiStatus("app", 1, Terminated(1, "Error"), None),
      ApiStatus("app", 0, None, None) }

Quantity(num, unit) == [num |-> num, unit |-> unit]

SpecContainer(name, cpuLimit, memLimit) ==
    [name |-> name,
     requests |-> [cpu |-> None, memory |-> None],
     limits |-> [cpu |-> cpuLimit, memory |-> memLimit]]

PodSpecChoices ==
    { <<SpecContainer("app", None, None)>>,
      <<SpecContainer("app", Quantity(1, ""), Quantity(1, "Mi"))>> }

PodPhases == {"Running", "Pending"}

PodChoices ==
    {[name |-> PodName, namespace |-> Namespace, phase |-> ph, nodeName |-> "node-1",
      containerStatuses |-> st, containers |-> sp] :
        ph \in PodPhases,
        st \in {<<>>} \cup {<<c>> : c \in PodStatusChoices},
        sp \in PodSpecChoices}

ApiEvent(type, reason, message, lastTimestamp) ==
    [type |-> type, reason |-> reason, message |-> message, count |-> 0,
     lastTimestamp |-> lastTimestamp, source |-> "kubelet"]

EventListChoices ==
    { <<>>,
      << ApiEvent("Normal", "Started", "Started container web", 1),
         ApiEvent("Warning", "Failed", "Failed to pull image \"web:v9\": manifest unknown: not found", 2) >>,
      << ApiEvent("Warning", "FailedMount", "Unable to attach or mount volumes: timed out waiting for the condition", 3),
         ApiEvent("Warning", "NetworkNotReady", "network plugin is not ready: CNI config uninitialized", 2) >> }

PodMetric(name, cpu, memory) ==
    [name |-> name, containers |-> << [name |-> "app", usage |-> [cpu |-> cpu, memory |-> memory]] >>]

MetricsChoices ==
    { <<>>,
      << PodMetric("other", Quantity(5000000, "n"), Quantity(1, "Ki")),
         PodMetric(PodName, Quantity(100000000, "n"), Quantity(100, "Ki")) >>,
      << PodMetric(PodName, Quantity(800000000, "n"), Quantity(990, "Ki")) >> }

\* the errors a cluster API call rejects with in the entry points' runs: a
\* connection failure, a missing resource, a forbidden request
ApiErrorsAt(n) ==
    { [code |-> "ECONNREFUSED", statusCode |-> 0, at |-> n],
      [code |-> "", statusCode |-> 404, at |-> n],
      [code |-> "", statusCode |-> 403, at |-> n] }

\* new Error(prefix + error.message), outermost prefix first
Wrapped(prefixes, error) == [kind |-> "thrown", wraps |-> prefixes, cause |-> error]

\* ----------------------------------------------------------- diagnosePod
InitPod ==
    /\ entry = "diagnosePod"
    /\ env \in {[namespace |-> Namespace, podName |-> PodName, metricsApi |-> m.api,
                 pod |-> p, events |-> e, metrics |-> m.items] :
                    p \in PodChoices, e \in EventListChoices,
                    m \in {[api |-> FALSE, items |-> <<>>]}
                          \cup {[api |-> TRUE, items |-> i] : i \in MetricsChoices}}
    /\ rt = NoFetch
    /\ pc = "start"
    /\ loc = None
    /\ out = None

\* the synchronous start: both withRetry calls of the Promise.all array invoke
\* their fetch before diagnosePod suspends
PodStart ==
    /\ entry = "diagnosePod" /\ pc = "start"
    /\ rt' = [rt EXCEPT !["pod"] = CallWithRetry([maxAttempts |-> 3, initialDelay |-> 500]),
                        !["events"] = CallWithRetry([maxAttempts |-> 2, initialDelay |-> 500])]
    /\ pc' = "join"
    /\ UNCHANGED <<entry, env, loc, out>>

PodFetches == {"pod", "events", "metrics"}

PodFetchResolves == entry = "diagnosePod" /\ \E f \in PodFetches : FetchResolves(f)
PodFetchRejects == entry = "diagnosePod" /\ \E f \in PodFetches : FetchRejects(f, ApiErrorsAt(rt[f].calls))
PodFetchWakes == entry = "diagnosePod" /\ \E f \in PodFetches : FetchWakes(f)

\* a .catch that rethrows the error as it is, and no outer wrapping
PodFetchFatal_Raw ==
    /\ entry = "diagnosePod" /\ pc = "join"
    /\ rt["pod"].pc = "done" /\ rt["pod"].settled.kind = "thrown"
    /\ out' = Wrapped(<<>>, rt["pod"].settled.error)
    /\ pc' = "done"
    /\ UNCHANGED <<entry, env, rt, loc>>

\* the pod fetch exhausted its retries: its .catch rethrows, Promise.all
\* rejects whatever the state of the event fetch, the outer catch wraps again
PodFetchFatal ==
    /\ entry = "diagnosePod" /\ pc = "join"
    /\ rt["pod"].pc = "done" /\ rt["pod"].settled.kind = "thrown"
    /\ out' = Wrapped(<<"Pod diagnosis failed: ", "Cannot read pod web: ">>, rt["pod"].settled.error)
    /\ pc' = "done"
    /\ UNCHANGED <<entry, env, rt, loc>>

\* what diagnosePod returns from its locals once the resources are known
PodResult(l, metrics) ==
    LET pod == l.pod
        resources == ResourceUsageOf(pod, env.podName, metrics)
        issues == l.issues \o detectResourceIssues(pod, resources)
                           \o detectVolumeIssues(pod, l.events)
                           \o detectNetworkIssues(pod, l.events)
        healthScore == calculateHealthScore(pod, issues)
    IN [kind |-> "returned",
        podInfo |-> [name |-> pod.name, namespace |-> pod.namespace,
                     phase |-> IF pod.phase = "" THEN "Unknown" ELSE pod.phase,
                     nodeName |-> pod.nodeName],
        containers |-> l.containers,
        issues |-> issues,
        resources |-> resources,
        events |-> l.events,
        summary |-> generatePodSummary(pod, issues, healthScore),
        healthScore |-> healthScore]

\* a join that waits for the pod only and takes the events when they are there
PodJoin_PodOnly ==
    /\ entry = "diagnosePod" /\ pc = "join"
    /\ rt["pod"].pc = "done"
    /\ LET pod == env.pod
           items == IF rt["events"].pc = "done" /\ rt["events"].settled.kind = "ok" THEN env.events ELSE <<>>
           events == parseEvents(items)
           containers == parseContainerStatuses(pod.containerStatuses)
           l == [pod |-> pod, events |-> events, containers |-> containers,
                 issues |-> detectContainerIssues(pod, containers) \o detectImagePullIssues(pod, events),
                 detectorsRun |-> <<"container", "imagePull">>]
       IN /\ rt' = rt
          /\ loc' = [l EXCEPT !.detectorsRun = @ \o <<"resource", "volume", "network">>]
          /\ pc' = "done"
          /\ out' = PodResult(l, None)
    /\ UNCHANGED <<entry, env>>

\* Promise.all resolved: events and container statuses are parsed, the
\* container and image-pull detectors run, analyzeResourceUsage sums the spec
\* and, with a metricsApi, invokes the metrics fetch and suspends
PodJoin ==
    /\ entry = "diagnosePod" /\ pc = "join"
    /\ rt["pod"].pc = "done" /\ rt["pod"].settled.kind = "ok"
    /\ rt["events"].pc = "done"
    /\ LET pod == env.pod
           items == IF rt["events"].settled.kind = "ok" THEN env.events ELSE <<>>
           events == parseEvents(items)
           containers == parseContainerStatuses(pod.containerStatuses)
           l == [pod |-> pod, events |-> events, containers |-> containers,
                 issues |-> detectContainerIssues(pod, containers) \o detectImagePullIssues(pod, events),
                 detectorsRun |-> <<"container", "imagePull">>]
       IN IF env.metricsApi
          THEN /\ rt' = [rt EXCEPT !["metrics"] =
                            CallWithRetry([maxAttempts |-> 2, initialDelay |-> 500, shouldRetry |-> "metrics"])]
               /\ loc' = l
               /\ pc' = "metrics"
               /\ out' = out
          ELSE /\ rt' = rt
               /\ loc' = [l EXCEPT !.detectorsRun = @ \o <<"resource", "volume", "network">>]
               /\ pc' = "done"
               /\ out' = PodResult(l, None)
    /\ UNCHANGED <<entry, env>>

\* the metrics are used only when the first invocation delivered them
PodMetricsDone_FirstAttemptOnly ==
    /\ entry = "diagnosePod" /\ pc = "metrics"
    /\ rt["metrics"].pc = "done"
    /\ out' = PodResult(loc, IF rt["metrics"].settled.kind = "ok" /\ rt["metrics"].calls = 1
                             THEN Some(env.metrics) ELSE None)
    /\ loc' = [loc EXCEPT !.detectorsRun = @ \o <<"resource", "volume", "network">>]
    /\ pc' = "done"
    /\ UNCHANGED <<entry, env, rt>>

\* the metrics fetch settled either way: the catch in analyzeResourceUsage
\* swallows a failure; the remaining detectors run and the result is returned
PodMetricsDone ==
    /\ entry = "diagnosePod" /\ pc = "metrics"
    /\ rt["metrics"].pc = "done"
    /\ out' = PodResult(loc, IF rt["metrics"].settled.kind = "ok" THEN Some(env.metrics) ELSE None)
    /\ loc' = [loc EXCEPT !.detectorsRun = @ \o <<"resource", "volume", "network">>]
    /\ pc' = "done"
    /\ UNCHANGED <<entry, env, rt>>

NextPod ==
    \/ PodStart \/ PodFetchResolves \/ PodFetchRejects \/ PodFetchWakes
    \/ PodFetchFatal \/ PodJoin \/ PodMetricsDone

SpecPod == InitPod /\ [][NextPod]_vars

\* the snapshot a finished run has joined: what each fetch delivered
JoinedSnapshot ==
    [pod |-> env.pod,
     events |-> IF rt["events"].settled.kind = "ok" THEN Some(env.events) ELSE None,
     metrics |-> IF env.metricsApi /\ rt["metrics"].settled.kind = "ok" THEN Some(env.metrics) ELSE None]

\* the diagnose-pod tool is called again on the unchanged cluster: the first
\* run's snapshot and result are kept aside and diagnosePod starts afresh
PodRerun ==
    /\ entry = "diagnosePod" /\ pc = "done" /\ out.kind = "returned"
    /\ "first" \notin DOMAIN env
    /\ env' = [f \in DOMAIN env \cup {"first"} |->
                  IF f = "first" THEN [snapshot |-> JoinedSnapshot, result |-> out] ELSE env[f]]
    /\ rt' = NoFetch
    /\ pc' = "start"
    /\ loc' = None
    /\ out' = None
    /\ UNCHANGED entry

NextPodTwice == NextPod \/ PodRerun

SpecPodTwice == InitPod /\ [][NextPodTwice]_vars

\* ----------------------------------------------------- diagnoseCrashLoop
MaxContainers == 2

ContainerNames == <<"app", "sidecar", "init", "agent">>

\* the previous-run log lines of the model, with the keywords their
\* lower-cased text contains and their text after trim()
LogLineKeywords(line) ==
    CASE line = "starting server on :8080" -> {}
      [] line = "ERROR: db connection refused" -> {"error"}
      [] line = "  panic: runtime error: nil map  " -> {"panic", "error"}
      [] line = "panic: runtime error: nil map" -> {"panic", "error"}
      [] line = "proxy ready" -> {}
      [] line = "Fatal: upstream closed" -> {"fatal"}
      [] line = "java.lang.IllegalStateException: boom" -> {"exception"}
      [] line \in {"error: retry 1", "error: retry 2", "error: retry 3", "error: retry 4",
                   "error: retry 5", "error: retry 6", "error: retry 7", "error: retry 8"} -> {"error"}
      [] OTHER -> {}

Trim(line) ==
    IF line = "  panic: runtime error: nil map  " THEN "panic: runtime error: nil map" ELSE line

\* what `kubectl logs --previous --tail=50` holds for a container
PreviousLog(container) ==
    CASE container = "app" ->
            <<"starting server on :8080", "ERROR: db connection refused",
              "error: retry 1", "error: retry 2", "error: retry 3", "error: retry 4",
              "error: retry 5", "error: retry 6", "error: retry 7", "error: retry 8",
              "  panic: runtime error: nil map  ", "java.lang.IllegalStateException: boom">>
      [] container = "sidecar" ->
            <<"proxy ready", "Fatal: upstream closed">>
      [] OTHER -> <<"java.lang.IllegalStateException: boom">>

CrashRestartCounts == {3, 4, 6}
CrashStates == {Running, Waiting("CrashLoopBackOff", "back-off restarting failed container"),
                Waiting("ContainerCreating", "")}
LastExitCodes == {None, Some(0), Some(1), Some(137), Some(143), Some(126), Some(127), Some(2)}

\* every status for a pod of one container, a smaller choice per container
\* for pods of several
CrashStatusFull(name) ==
    {ApiStatus(name, rc, st, ex) : rc \in CrashRestartCounts, st \in CrashStates, ex \in LastExitCodes}
CrashStatusCore(name) ==
    {ApiStatus(name, rc, st, ex) :
        rc \in {3, 4}, st \in {Running, Waiting("CrashLoopBackOff", "back-off restarting failed container")},
        ex \in {None, Some(137)}}

RECURSIVE StatusLists(_)
StatusLists(n) ==
    IF n = 0 THEN {<<>>}
    ELSE {Append(l, c) : l \in StatusLists(n - 1), c \in CrashStatusCore(ContainerNames[n])}

CrashStatusLists ==
    {<<>>} \cup {<<c>> : c \in CrashStatusFull(ContainerNames[1])}
           \cup UNION {StatusLists(n) : n \in 2..MaxContainers}

InitCrash ==
    /\ entry = "diagnoseCrashLoop"
    /\ env \in {[namespace |-> Namespace, podName |-> PodName, containerName |-> cn,
                 pod |-> [name |-> PodName, namespace |-> Namespace, containerStatuses |-> sl]] :
                    cn \in {""} \cup {ContainerNames[i] : i \in 1..MaxContainers},
                    sl \in CrashStatusLists}
    /\ rt = NoFetch
    /\ pc = "start"
    /\ loc = None
    /\ out = None

CrashStart ==
    /\ entry = "diagnoseCrashLoop" /\ pc = "start"
    /\ rt' = [rt EXCEPT !["pod"] = CallWithRetry([maxAttempts |-> 3])]
    /\ pc' = "pod"
    /\ UNCHANGED <<entry, env, loc, out>>

CrashPodResolves == entry = "diagnoseCrashLoop" /\ FetchResolves("pod")
CrashPodRejects == entry = "diagnoseCrashLoop" /\ FetchRejects("pod", ApiErrorsAt(rt["pod"].calls))
CrashFetchWakes == entry = "diagnoseCrashLoop" /\ \E f \in {"pod", "log"} : FetchWakes(f)

\* the pod read exhausted its retries: the outer catch wraps the error
CrashPodFatal ==
    /\ entry = "diagnoseCrashLoop" /\ pc = "pod"
    /\ rt["pod"].pc = "done" /\ rt["pod"].settled.kind = "thrown"
    /\ out' = Wrapped(<<"CrashLoop diagnostics failed: ">>, rt["pod"].settled.error)
    /\ pc' = "done"
    /\ UNCHANGED <<entry, env, rt, loc>>

\* the threshold of the cluster-wide check (more than 5 restarts)
IsCrashLooping_Threshold5(status) ==
    \/ status.restartCount > 5
    \/ /\ status.state # None
       /\ status.state.waiting # None
       /\ status.state.waiting.reason = "CrashLoopBackOff"

\* restartCount > 3 || status.state?.waiting?.reason === 'CrashLoopBackOff'
IsCrashLooping(status) ==
    \/ status.restartCount > 3
    \/ /\ status.state # None
       /\ status.state.waiting # None
       /\ status.state.waiting.reason = "CrashLoopBackOff"

\* if (containerName && status.name !== containerName) continue
Selected(status, containerName) == containerName = "" \/ status.name = containerName

\* a table without the branch for exit code 137
CrashCause_NoOOM(status, podName, namespace) ==
    LET lastTerminated == IF status.lastState = None THEN None ELSE status.lastState.terminated IN
    IF lastTerminated = None THEN [rootCause |-> <<"unknown">>, solution |-> <<"">>]
    ELSE IF lastTerminated.exitCode = 0
    THEN [rootCause |-> <<"Container exited normally but keeps restarting due to restart policy">>,
          solution |-> <<"Change spec.restartPolicy to \"Never\" or \"OnFailure\"">>]
    ELSE [rootCause |-> <<"Unknown error (exit code ", ToString(lastTerminated.exitCode), ")">>,
          solution |-> <<"Check logs to identify detailed cause">>]

\* the root cause and the solution for a container's last termination
CrashCause(status, podName, namespace) ==
    LET lastTerminated == IF status.lastState = None THEN None ELSE status.lastState.terminated IN
    IF lastTerminated = None THEN [rootCause |-> <<"unknown">>, solution |-> <<"">>]
    ELSE LET exitCode == lastTerminated.exitCode IN
         CASE exitCode = 0 ->
                [rootCause |-> <<"Container exited normally but keeps restarting due to restart policy">>,
                 solution |-> <<"Change spec.restartPolicy to \"Never\" or \"OnFailure\"">>]
           [] exitCode = 1 ->
                [rootCause |-> <<"Application error caused termination">>,
                 solution |-> <<"Check logs to fix application errors: kubectl logs ", podName, " -n ",
                                namespace, " -c ", status.name, " --previous">>]
           [] exitCode = 137 ->
                [rootCause |-> <<"OOM (Out Of Memory) - Container was killed due to insufficient memory">>,
                 solution |-> <<"Increase memory limit or optimize application memory usage">>]
           [] exitCode = 143 ->
                [rootCause |-> <<"Terminated by SIGTERM - Received normal termination signal">>,
                 solution |-> <<"Graceful shutdown may not be properly implemented. Try increasing terminationGracePeriodSeconds">>]
           [] exitCode = 126 ->
                [rootCause |-> <<"Permission denied - Executable file lacks execute permission">>,
                 solution |-> <<"Grant execute permission with chmod +x in Dockerfile">>]
           [] exitCode = 127 ->
                [rootCause |-> <<"Command not found - CMD/ENTRYPOINT command does not exist">>,
                 solution |-> <<"Verify CMD/ENTRYPOINT path in Dockerfile">>]
           [] OTHER ->
                [rootCause |-> <<"Unknown error (exit code ", ToString(exitCode), ")">>,
                 solution |-> <<"Check logs to identify detailed cause">>]

\* the lines of logData that mention error, exception, fatal or panic
RelevantLines(lines) ==
    LET hits == Filter(lines, {l \in Range(lines) :
                    LogLineKeywords(l) \cap {"error", "exception", "fatal", "panic"} # {}})
    IN [i \in 1..Len(hits) |-> Trim(hits[i])]

\* every relevant line attached, without the cap
Slice10_NoCap(lines) == lines

\* relevantLogs.slice(0, 10)
Slice10(lines) == SubSeq(lines, 1, Min(10, Len(lines)))

\* the issue pushed for a crash-looping container, with the log lines when
\* the log fetch succeeded (logs = Some(logData)) and without otherwise
CrashIssue(status, podName, namespace, logs) ==
    LET cause == CrashCause(status, podName, namespace) IN
    [type |-> <<"CrashLoopBackOff">>, severity |-> "critical",
     message |-> <<"Container ", status.name, " has restarted ", ToString(status.restartCount), " times">>,
     rootCause |-> cause.rootCause, solution |-> cause.solution,
     resource |-> [kind |-> "Pod", name |-> podName, namespace |-> namespace],
     relatedEvents |-> None,
     relevantLogs |-> IF logs = None THEN None ELSE Some(Slice10(RelevantLines(logs.v)))]

\* the for loop from position i on: the index of the next status that is
\* selected and crash-looping, or 0 when the loop ends
NextCrashLooping(statuses, i, containerName) ==
    LET later == {j \in (i + 1)..Len(statuses) :
                    Selected(statuses[j], containerName) /\ IsCrashLooping(statuses[j])}
    IN IF later = {} THEN 0 ELSE CHOOSE j \in later : \A k \in later : j <= k

\* run the loop until the next log fetch is invoked or the issues are returned
CrashContinue(statuses, i, issues) ==
    LET j == NextCrashLooping(statuses, i, env.containerName) IN
    IF j = 0
    THEN /\ loc' = [statuses |-> statuses, i |-> Len(statuses), issues |-> issues, logData |-> <<>>]
         /\ out' = [kind |-> "returned", issues |-> issues]
         /\ pc' = "done"
         /\ rt' = rt
    ELSE /\ loc' = [statuses |-> statuses, i |-> j, issues |-> issues, logData |-> <<>>]
         /\ out' = out
         /\ pc' = "log"
         /\ rt' = [rt EXCEPT !["log"] = CallWithRetry([maxAttempts |-> 2])]

CrashPodDone ==
    /\ entry = "diagnoseCrashLoop" /\ pc = "pod"
    /\ rt["pod"].pc = "done" /\ rt["pod"].settled.kind = "ok"
    /\ CrashContinue(env.pod.containerStatuses, 0, <<>>)
    /\ UNCHANGED <<entry, env>>

\* logApi.log pipes the log into the stream and resolves
CrashLogResolves ==
    /\ entry = "diagnoseCrashLoop" /\ rt["log"].pc = "inflight"
    /\ rt' = [rt EXCEPT !["log"] = OnResolve(@)]
    /\ loc' = [loc EXCEPT !.logData = @ \o PreviousLog(loc.statuses[loc.i].name)]
    /\ UNCHANGED <<entry, env, pc, out>>

\* logApi.log rejects, after having piped none, some or all of the log
CrashLogRejects ==
    /\ entry = "diagnoseCrashLoop" /\ rt["log"].pc = "inflight"
    /\ \E error \in ApiErrorsAt(rt["log"].calls) :
          rt' = [rt EXCEPT !["log"] = OnReject(@, error)]
    /\ \E n \in 0..Len(PreviousLog(loc.statuses[loc.i].name)) :
          loc' = [loc EXCEPT !.logData = @ \o SubSeq(PreviousLog(loc.statuses[loc.i].name), 1, n)]
    /\ UNCHANGED <<entry, env, pc, out>>

\* the log fetch settled: the issue is pushed on either path and the loop
\* goes on
CrashLogDone ==
    /\ entry = "diagnoseCrashLoop" /\ pc = "log"
    /\ rt["log"].pc = "done"
    /\ LET status == loc.statuses[loc.i]
           logs == IF rt["log"].settled.kind = "ok" THEN Some(loc.logData) ELSE None
       IN CrashContinue(loc.statuses, loc.i,
                        Append(loc.issues, CrashIssue(status, env.podName, env.namespace, logs)))
    /\ UNCHANGED <<entry, env>>

NextCrash ==
    \/ CrashStart \/ CrashPodResolves \/ CrashPodRejects \/ CrashFetchWakes
    \/ CrashPodFatal \/ CrashPodDone \/ CrashLogResolves \/ CrashLogRejects \/ CrashLogDone

SpecCrash == InitCrash /\ [][NextCrash]_vars

\* -------------------------------------------------------- log-analyzer.ts
MaxLogLines == 3

\* The log lines of the model. For each: the error and warning keywords its
\* lower-cased text contains, the catalog signatures whose regex matches it,
\* and its text after normalizeErrorMessage.
LogLines ==
    { "2024-01-15T10:30:00Z ERROR could not connect to database at 10.0.0.5:5432",
      "2024-01-15T10:30:05Z ERROR could not connect to database at 10.0.0.5:5432",
      "WARN request timed out after 30s",
      "Error: connect ECONNREFUSED 10.0.0.7:6379",
      "listening on port 8080",
      "connect ETIMEDOUT 10.0.0.9:5432",
      "2024-01-15 10:30:00 panic in Zone 0x1F",
      "x509: CERT_HAS_EXPIRED",
      "   " }

IsBlank(line) == line = "   "

ErrorKeywordsIn(line) ==
    CASE line = "2024-01-15T10:30:00Z ERROR could not connect to database at 10.0.0.5:5432" -> {"error"}
      [] line = "2024-01-15T10:30:05Z ERROR could not connect to database at 10.0.0.5:5432" -> {"error"}
      [] line = "Error: connect ECONNREFUSED 10.0.0.7:6379" -> {"error"}
      [] line = "2024-01-15 10:30:00 panic in Zone 0x1F" -> {"panic"}
      [] OTHER -> {}

WarnKeywordsIn(line) ==
    CASE line = "WARN request timed out after 30s" -> {"warn"}
      [] OTHER -> {}

MatchingSignatures(line) ==
    CASE line = "2024-01-15T10:30:00Z ERROR could not connect to database at 10.0.0.5:5432" ->
            {"Database Connection Error"}
      [] line = "2024-01-15T10:30:05Z ERROR could not connect to database at 10.0.0.5:5432" ->
            {"Database Connection Error"}
      [] line = "WARN request timed out after 30s" -> {"Timeout"}
      [] line = "Error: connect ECONNREFUSED 10.0.0.7:6379" -> {"Connection Refused"}
      [] line = "connect ETIMEDOUT 10.0.0.9:5432" -> {"Database Connection Error", "Timeout"}
      [] line = "x509: CERT_HAS_EXPIRED" -> {"SSL/TLS Error"}
      [] OTHER -> {}

normalizeErrorMessage(message) ==
    CASE message = "2024-01-15T10:30:00Z ERROR could not connect to database at 10.0.0.5:5432" ->
            "<timestamp> error could not connect to database at <ip>:<port>"
      [] message = "2024-01-15T10:30:05Z ERROR could not connect to database at 10.0.0.5:5432" ->
            "<timestamp> error could not connect to database at <ip>:<port>"
      [] message = "WARN request timed out after 30s" -> "warn request timed out after <num>s"
      [] message = "Error: connect ECONNREFUSED 10.0.0.7:6379" -> "error: connect econnrefused <ip>:<port>"
      [] message = "listening on port 8080" -> "listening on port <num>"
      [] message = "connect ETIMEDOUT 10.0.0.9:5432" -> "connect etimedout <ip>:<port>"
      [] message = "x509: CERT_HAS_EXPIRED" -> "x<num>: cert_has_expired"
      [] message = "2024-01-15 10:30:00 panic in Zone 0x1F" -> "<timestamp>one <num>x<num>f"
      [] message = "   " -> ""
      [] OTHER -> message

\* the signature catalog, in its order, with the severity of each entry
knownPatterns ==
    << [name |-> "Connection Refused", severity |-> "high", solution |-> "Check if service is running: kubectl get pods"],
       [name |-> "Database Connection Error", severity |-> "critical", solution |-> "Check DB Pod status"],
       [name |-> "Out of Memory", severity |-> "critical", solution |-> "Increase memory limit: resources.limits.memory"],
       [name |-> "File Not Found", severity |-> "high", solution |-> "Check volumeMounts configuration"],
       [name |-> "Permission Denied", severity |-> "high", solution |-> "Configure securityContext"],
       [name |-> "DNS Resolution Failed", severity |-> "high", solution |-> "Check CoreDNS Pod: kubectl get pods -n kube-system"],
       [name |-> "Port Already in Use", severity |-> "medium", solution |-> "Change port number"],
       [name |-> "Timeout", severity |-> "medium", solution |-> "Increase timeout value"],
       [name |-> "Null Pointer / Undefined", severity |-> "medium", solution |-> "Verify ConfigMap/Secret"],
       [name |-> "SSL/TLS Error", severity |-> "high", solution |-> "Renew certificate"] >>

\* the ascending list of the numbers in a set
RECURSIVE Ascending(_)
Ascending(S) ==
    IF S = {} THEN <<>>
    ELSE LET m == CHOOSE x \in S : \A y \in S : x <= y IN <<m>> \o Ascending(S \ {m})

extractErrorLines(lines) ==
    LET ns == Ascending({i \in 1..Len(lines) : ErrorKeywordsIn(lines[i]) # {}})
    IN [k \in 1..Len(ns) |-> [lineNumber |-> ns[k], content |-> lines[ns[k]], level |-> "ERROR"]]

extractWarningLines(lines) ==
    LET ns == Ascending({i \in 1..Len(lines) : WarnKeywordsIn(lines[i]) # {}})
    IN [k \in 1..Len(ns) |-> [lineNumber |-> ns[k], content |-> lines[ns[k]], level |-> "WARN"]]

\* a line counted for the first catalog signature it matches only
detectErrorPatterns_FirstSignature(lines) ==
    LET first(i) == CHOOSE k \in 1..Len(knownPatterns) :
                        /\ knownPatterns[k].name \in MatchingSignatures(lines[i])
                        /\ \A j \in 1..(k - 1) : knownPatterns[j].name \notin MatchingSignatures(lines[i])
        match(k) == Ascending({i \in 1..Len(lines) : MatchingSignatures(lines[i]) # {} /\ first(i) = k})
        order == Ascending({k \in 1..Len(knownPatterns) : match(k) # <<>>})
    IN [k \in 1..Len(order) |->
          [name |-> knownPatterns[order[k]].name,
           matchedLines |-> match(order[k]),
           solutions |-> <<knownPatterns[order[k]].solution>>,
           severity |-> knownPatterns[order[k]].severity]]

detectErrorPatterns(lines) ==
    LET match(p) == Ascending({i \in 1..Len(lines) : p.name \in MatchingSignatures(lines[i])})
        hit == {k \in 1..Len(knownPatterns) : match(knownPatterns[k]) # <<>>}
        order == Ascending(hit)
    IN [k \in 1..Len(order) |->
          [name |-> knownPatterns[order[k]].name,
           matchedLines |-> match(knownPatterns[order[k]]),
           solutions |-> <<knownPatterns[order[k]].solution>>,
           severity |-> knownPatterns[order[k]].severity]]

\* insertion into a list sorted by count, largest first, after equal counts
RECURSIVE InsertByCount(_, _)
InsertByCount(e, sorted) ==
    IF sorted = <<>> THEN <<e>>
    ELSE IF Head(sorted).count < e.count THEN <<e>> \o sorted
    ELSE <<Head(sorted)>> \o InsertByCount(e, Tail(sorted))

RECURSIVE SortByCountDesc(_)
SortByCountDesc(es) ==
    IF es = <<>> THEN <<>>
    ELSE InsertByCount(es[Len(es)], SortByCountDesc(SubSeq(es, 1, Len(es) - 1)))

\* groups kept from 2 lines on
findRepeatedErrors_Twice(errorLines) ==
    LET key(k) == normalizeErrorMessage(errorLines[k].content)
        firsts == Ascending({k \in 1..Len(errorLines) : \A j \in 1..(k - 1) : key(j) # key(k)})
        group(k) == Ascending({errorLines[j].lineNumber : j \in {j \in 1..Len(errorLines) : key(j) = key(k)}})
        kept == Filter(firsts, {k \in Range(firsts) : Len(group(k)) >= 2})
    IN SortByCountDesc([n \in 1..Len(kept) |->
          [message |-> key(kept[n]), count |-> Len(group(kept[n])),
           firstLine |-> group(kept[n])[1], lastLine |-> group(kept[n])[Len(group(kept[n]))],
           isPattern |-> TRUE]])

findRepeatedErrors(errorLines) ==
    LET key(k) == normalizeErrorMessage(errorLines[k].content)
        \* the Map keeps its keys in the order of first insertion
        firsts == Ascending({k \in 1..Len(errorLines) : \A j \in 1..(k - 1) : key(j) # key(k)})
        group(k) == Ascending({errorLines[j].lineNumber : j \in {j \in 1..Len(errorLines) : key(j) = key(k)}})
        kept == Filter(firsts, {k \in Range(firsts) : Len(group(k)) >= 3})
    IN SortByCountDesc([n \in 1..Len(kept) |->
          [message |-> key(kept[n]), count |-> Len(group(kept[n])),
           firstLine |-> group(kept[n])[1], lastLine |-> group(kept[n])[Len(group(kept[n]))],
           isPattern |-> TRUE]])

\* the signature-specific recommendations pushed before the other two
generateRecommendations_PatternsFirst(patterns, repeatedErrors) ==
    LET critical == Cardinality({k \in 1..Len(patterns) : patterns[k].severity = "critical"})
        recommendations ==
            [k \in 1..Min(3, Len(patterns)) |-> [kind |-> "pattern", about |-> patterns[k].name]]
            \o (IF critical > 0
                THEN << [kind |-> "critical", about |-> ToString(critical)] >> ELSE <<>>)
            \o (IF Len(repeatedErrors) > 0
                THEN << [kind |-> "repeated", about |-> repeatedErrors[1].message] >> ELSE <<>>)
    IN IF recommendations = <<>> THEN << [kind |-> "none", about |-> ""] >> ELSE recommendations

generateRecommendations(patterns, repeatedErrors) ==
    LET critical == Cardinality({k \in 1..Len(patterns) : patterns[k].severity = "critical"})
        recommendations ==
            (IF critical > 0
             THEN << [kind |-> "critical", about |-> ToString(critical)] >> ELSE <<>>)
            \o (IF Len(repeatedErrors) > 0
                THEN << [kind |-> "repeated", about |-> repeatedErrors[1].message] >> ELSE <<>>)
            \o [k \in 1..Min(3, Len(patterns)) |-> [kind |-> "pattern", about |-> patterns[k].name]]
    IN IF recommendations = <<>> THEN << [kind |-> "none", about |-> ""] >> ELSE recommendations

\* what analyzeLogs returns for the text collected in logData
LogAnalysisOf(logData) ==
    LET lines == Filter(logData, {l \in Range(logData) : ~IsBlank(l)})
        errorLines == extractErrorLines(lines)
        patterns == detectErrorPatterns(lines)
        repeatedErrors == findRepeatedErrors(errorLines)
    IN [kind |-> "returned",
        totalLines |-> Len(lines),
        errorLines |-> errorLines,
        warningLines |-> extractWarningLines(lines),
        patterns |-> patterns,
        repeatedErrors |-> repeatedErrors,
        summary |-> [totalLines |-> Len(lines), errors |-> Len(errorLines),
                     patterns |-> [k \in 1..Len(patterns) |->
                                     <<patterns[k].name, ToString(Len(patterns[k].matchedLines))>>]],
        recommendations |-> generateRecommendations(patterns, repeatedErrors)]

\* two longer logs: 15 database-connection lines with 8 timeout lines among
\* them, and three groups of repeated error lines of 3, 4 and 2 lines
ScenarioLogs ==
    { [i \in 1..23 |->
          IF i % 3 = 2 THEN "WARN request timed out after 30s"
          ELSE IF i % 2 = 0 THEN "2024-01-15T10:30:00Z ERROR could not connect to database at 10.0.0.5:5432"
          ELSE "2024-01-15T10:30:05Z ERROR could not connect to database at 10.0.0.5:5432"],
      << "2024-01-15T10:30:00Z ERROR could not connect to database at 10.0.0.5:5432",
         "Error: connect ECONNREFUSED 10.0.0.7:6379",
         "2024-01-15 10:30:00 panic in Zone 0x1F",
         "   ",
         "2024-01-15T10:30:05Z ERROR could not connect to database at 10.0.0.5:5432",
         "Error: connect ECONNREFUSED 10.0.0.7:6379",
         "Error: connect ECONNREFUSED 10.0.0.7:6379",
         "listening on port 8080",
         "2024-01-15T10:30:00Z ERROR could not connect to database at 10.0.0.5:5432",
         "2024-01-15 10:30:00 panic in Zone 0x1F",
         "Error: connect ECONNREFUSED 10.0.0.7:6379" >> }

RECURSIVE SeqsUpTo(_, _)
SeqsUpTo(S, n) ==
    IF n = 0 THEN {<<>>}
    ELSE LET shorter == SeqsUpTo(S, n - 1) IN
         shorter \cup {Append(l, x) : l \in {l \in shorter : Len(l) = n - 1}, x \in S}

InitLogs ==
    /\ entry = "analyzeLogs"
    /\ env \in {[namespace |-> Namespace, podName |-> PodName, containerName |-> "", log |-> l] :
                    l \in SeqsUpTo(LogLines, MaxLogLines) \cup ScenarioLogs}
    /\ rt = NoFetch
    /\ pc = "start"
    /\ loc = None
    /\ out = None

\* up to the await of logApi.log, which is called directly
LogsStart ==
    /\ entry = "analyzeLogs" /\ pc = "start"
    /\ rt' = [rt EXCEPT !["log"] = CallDirect]
    /\ loc' = [logData |-> <<>>]
    /\ pc' = "log"
    /\ UNCHANGED <<entry, env, out>>

LogsFetchResolves ==
    /\ entry = "analyzeLogs" /\ rt["log"].pc = "inflight"
    /\ rt' = [rt EXCEPT !["log"] = OnResolve(@)]
    /\ loc' = [loc EXCEPT !.logData = @ \o env.log]
    /\ UNCHANGED <<entry, env, pc, out>>

LogsFetchRejects ==
    /\ entry = "analyzeLogs" /\ rt["log"].pc = "inflight"
    /\ \E error \in ApiErrorsAt(rt["log"].calls) :
          rt' = [rt EXCEPT !["log"] = OnReject(@, error)]
    /\ \E n \in 0..Len(env.log) :
          loc' = [loc EXCEPT !.logData = @ \o SubSeq(env.log, 1, n)]
    /\ UNCHANGED <<entry, env, pc, out>>

\* the await settled: the analysis of logData, or the wrapped error
LogsDone ==
    /\ entry = "analyzeLogs" /\ pc = "log"
    /\ rt["log"].pc = "done"
    /\ out' = IF rt["log"].settled.kind = "ok"
              THEN LogAnalysisOf(loc.logData)
              ELSE Wrapped(<<"Log analysis failed: ">>, rt["log"].settled.error)
    /\ pc' = "done"
    /\ UNCHANGED <<entry, env, rt, loc>>

NextLogs == LogsStart \/ LogsFetchResolves \/ LogsFetchRejects \/ LogsDone

SpecLogs == InitLogs /\ [][NextLogs]_vars

\* ---------------------------------------------------- cluster-health.ts
MaxNodes == 2
MaxPods == 2

Condition(type, status) == [type |-> type, status |-> status]

NodeChoices(name) ==
    {[name |-> name, conditions |-> c] :
        c \in { <<Condition("MemoryPressure", "False"), Condition("Ready", "True")>>,
                <<Condition("Ready", "False")>>,
                <<>> }}

ClusterPodChoices(name) ==
    {[name |-> name, namespace |-> ns, phase |-> ph, containerStatuses |-> st] :
        ns \in {Namespace, "dev"},
        ph \in {"Running", "Pending", "Failed"},
        st \in { <<>>, <<ApiStatus("app", 6, Running, Some(1))>> }}

NodeNames == <<"node-1", "node-2", "node-3">>
PodNames == <<"web", "api", "db">>

RECURSIVE NodeLists(_)
NodeLists(n) ==
    IF n = 0 THEN {<<>>}
    ELSE LET shorter == NodeLists(n - 1) IN
         shorter \cup {Append(l, x) : l \in {l \in shorter : Len(l) = n - 1}, x \in NodeChoices(NodeNames[n])}

RECURSIVE ClusterPodLists(_)
ClusterPodLists(n) ==
    IF n = 0 THEN {<<>>}
    ELSE LET shorter == ClusterPodLists(n - 1) IN
         shorter \cup {Append(l, x) : l \in {l \in shorter : Len(l) = n - 1}, x \in ClusterPodChoices(PodNames[n])}

\* n.status?.conditions?.some(c => c.type === 'Ready' && c.status === 'True')
IsReady(node) ==
    \E i \in 1..Len(node.conditions) :
        node.conditions[i].type = "Ready" /\ node.conditions[i].status = "True"

\* some container waits in CrashLoopBackOff or has restarted more than 5 times
IsCrashLoopPod(pod) ==
    \E i \in 1..Len(pod.containerStatuses) :
        LET c == pod.containerStatuses[i] IN
        \/ c.state # None /\ c.state.waiting # None /\ c.state.waiting.reason = "CrashLoopBackOff"
        \/ c.restartCount > 5

ClusterIssue(type, severity, message, rootCause, solution, kind, name, namespace) ==
    [type |-> <<type>>, severity |-> severity, message |-> message, rootCause |-> <<rootCause>>,
     solution |-> solution, resource |-> [kind |-> kind, name |-> name, namespace |-> namespace],
     relatedEvents |-> None, relevantLogs |-> None]

NodeIssues(nodes) ==
    LET notReady == Filter(nodes, {n \in Range(nodes) : ~IsReady(n)}) IN
    [i \in 1..Len(notReady) |->
        ClusterIssue("Node Not Ready", "critical",
                     <<"Node ", notReady[i].name, " is not in Ready state">>,
                     "Node has encountered a problem",
                     <<"Check detailed cause with: kubectl describe node <node-name>">>,
                     "Node", notReady[i].name, "")]

Slice5_NoCap(s) == s

Slice5(s) == SubSeq(s, 1, Min(5, Len(s)))

PodIssues(pods) ==
    LET pending == Slice5(Filter(pods, {p \in Range(pods) : p.phase = "Pending"}))
        crashLoop == Slice5(Filter(pods, {p \in Range(pods) : IsCrashLoopPod(p)}))
    IN [i \in 1..Len(pending) |->
            ClusterIssue("Pod Pending", "high",
                         <<"Pod ", pending[i].name, " is in Pending state">>,
                         "Cannot be scheduled or image cannot be pulled",
                         <<"kubectl describe pod ", pending[i].name, " -n ", pending[i].namespace>>,
                         "Pod", pending[i].name, pending[i].namespace)]
       \o [i \in 1..Len(crashLoop) |->
            ClusterIssue("CrashLoopBackOff", "critical",
                         <<"Pod ", crashLoop[i].name, " is in CrashLoop state">>,
                         "Container is repeatedly failing",
                         <<"kubectl logs ", crashLoop[i].name, " -n ", crashLoop[i].namespace, " --previous">>,
                         "Pod", crashLoop[i].name, crashLoop[i].namespace)]

CountPods(pods, phase) == Cardinality({i \in 1..Len(pods) : pods[i].phase = phase})

PodStats(pods) ==
    [total |-> Len(pods),
     running |-> CountPods(pods, "Running"),
     pending |-> CountPods(pods, "Pending"),
     failed |-> CountPods(pods, "Failed"),
     crashLooping |-> Cardinality({i \in 1..Len(pods) : IsCrashLoopPod(pods[i])})]

ClusterWeight(severity) ==
    CASE severity = "critical" -> 10
      [] severity = "high" -> 5
      [] severity = "medium" -> 2
      [] OTHER -> 0

NaN == [nan |-> TRUE]

\* the score as the exact fraction num / den; 0 / 0 in either percentage
\* makes every later value, Math.min and Math.max included, NaN
calculateOverallScore(totalNodes, readyNodes, podStats, issues) ==
    IF totalNodes = 0 \/ podStats.total = 0 THEN NaN
    ELSE LET den == 10 * totalNodes * podStats.total
             deductions == 5 * podStats.crashLooping
                           + SeqSum([i \in 1..Len(issues) |-> ClusterWeight(issues[i].severity)])
             num == 100 * den
                    - 5 * (100 * totalNodes - 100 * readyNodes) * podStats.total
                    - 3 * (100 * podStats.total - 100 * podStats.running) * totalNodes
                    - deductions * den
         IN [nan |-> FALSE, num |-> Max(0, Min(100 * den, num)), den |-> den]

generateClusterRecommendations(issues, podStats, totalNodes) ==
    LET critical == CountSeverity(issues, "critical")
        recommendations ==
            (IF critical > 0 THEN <<"resolve-critical">> ELSE <<>>)
            \o (IF podStats.crashLooping > 0 THEN <<"crashloop">> ELSE <<>>)
            \o (IF podStats.pending > 5 THEN <<"pending">> ELSE <<>>)
            \o (IF totalNodes < 3 THEN <<"three-nodes">> ELSE <<>>)
    IN IF recommendations = <<>> THEN <<"healthy">> ELSE recommendations

ClusterResult(nodes, nodeIssues, pods) ==
    LET issues == nodeIssues \o PodIssues(pods)
        podStats == PodStats(pods)
        ready == Cardinality({i \in 1..Len(nodes) : IsReady(nodes[i])})
        notReady == Cardinality({i \in 1..Len(nodes) : ~IsReady(nodes[i])})
        overallScore == calculateOverallScore(Len(nodes), ready, podStats, issues)
        ofKind(k) == Filter(issues, {i \in Range(issues) : i.resource.kind = k})
    IN [kind |-> "returned",
        overallScore |-> overallScore,
        nodeHealth |-> [total |-> Len(nodes), ready |-> ready, notReady |-> notReady,
                        issues |-> ofKind("Node")],
        podHealth |-> [stats |-> podStats, issues |-> ofKind("Pod")],
        criticalIssues |-> Filter(issues, {i \in Range(issues) : i.severity = "critical"}),
        recommendations |-> generateClusterRecommendations(issues, podStats, Len(nodes)),
        summary |-> [score |-> overallScore, ready |-> ready, nodes |-> Len(nodes), stats |-> podStats]]

\* clusters with many pending and many crash-looping pods
MaxManyPods == 6

ManyPods(pending, crashing) ==
    [i \in 1..pending |->
        [name |-> "job-" \o ToString(i), namespace |-> Namespace, phase |-> "Pending",
         containerStatuses |-> <<>>]]
    \o [i \in 1..crashing |->
        [name |-> "worker-" \o ToString(i), namespace |-> Namespace, phase |-> "Running",
         containerStatuses |->
            <<ApiStatus("app", 3, Waiting("CrashLoopBackOff", "back-off 5m0s restarting failed container"),
                        Some(1))>>]]

ScenarioClusters ==
    {[namespace |-> "", nodes |-> n, pods |-> ManyPods(pending, crashing)] :
        n \in {<<[name |-> "node-1", conditions |-> <<Condition("Ready", "True")>>]>>,
               <<[name |-> "node-1", conditions |-> <<Condition("Ready", "False")>>],
                 [name |-> "node-2", conditions |-> <<Condition("Ready", "True")>>],
                 [name |-> "node-3", conditions |-> <<Condition("Ready", "Unknown")>>]>>},
        pending \in 0..MaxManyPods, crashing \in 0..MaxManyPods}

InitCluster ==
    /\ entry = "diagnoseClusterHealth"
    /\ env \in {[namespace |-> ns, nodes |-> n, pods |-> p] :
                    ns \in {"", Namespace}, n \in NodeLists(MaxNodes), p \in ClusterPodLists(MaxPods)}
                \cup ScenarioClusters
    /\ rt = NoFetch
    /\ pc = "start"
    /\ loc = None
    /\ out = None

\* up to the await of coreApi.listNode(), which is called directly
ClusterStart ==
    /\ entry = "diagnoseClusterHealth" /\ pc = "start"
    /\ rt' = [rt EXCEPT !["nodes"] = CallDirect]
    /\ pc' = "nodes"
    /\ UNCHANGED <<entry, env, loc, out>>

ClusterFetches == {"nodes", "pods"}

ClusterFetchResolves == entry = "diagnoseClusterHealth" /\ \E f \in ClusterFetches : FetchResolves(f)
ClusterFetchRejects ==
    entry = "diagnoseClusterHealth" /\ \E f \in ClusterFetches : FetchRejects(f, ApiErrorsAt(rt[f].calls))

\* listNode settled: its error rejects the call as it is; otherwise the node
\* issues are pushed and the pods are listed, in the namespace when one is given
ClusterNodesDone ==
    /\ entry = "diagnoseClusterHealth" /\ pc = "nodes"
    /\ rt["nodes"].pc = "done"
    /\ IF rt["nodes"].settled.kind = "thrown"
       THEN /\ out' = Wrapped(<<>>, rt["nodes"].settled.error)
            /\ pc' = "done"
            /\ UNCHANGED <<rt, loc>>
       ELSE /\ loc' = [nodes |-> env.nodes, issues |-> NodeIssues(env.nodes)]
            /\ rt' = [rt EXCEPT !["pods"] = CallDirect]
            /\ pc' = "pods"
            /\ out' = out
    /\ UNCHANGED <<entry, env>>

\* listNamespacedPod({ namespace }) or listPodForAllNamespaces()
PodsServed ==
    IF env.namespace = "" THEN env.pods
    ELSE Filter(env.pods, {p \in Range(env.pods) : p.namespace = env.namespace})

ClusterPodsDone ==
    /\ entry = "diagnoseClusterHealth" /\ pc = "pods"
    /\ rt["pods"].pc = "done"
    /\ out' = IF rt["pods"].settled.kind = "thrown"
              THEN Wrapped(<<>>, rt["pods"].settled.error)
              ELSE ClusterResult(loc.nodes, loc.issues, PodsServed)
    /\ pc' = "done"
    /\ UNCHANGED <<entry, env, rt, loc>>

NextCluster ==
    ClusterStart \/ ClusterFetchResolves \/ ClusterFetchRejects \/ ClusterNodesDone \/ ClusterPodsDone

SpecCluster == InitCluster /\ [][NextCluster]_vars

\* ------------------------------------------- the detectors on their own
MaxStatuses == 2
MaxEvents == 2
MaxSpecContainers == 2

DetectStates ==
    {None, Running,
     Waiting("CreateContainerConfigError", "secret \"db\" not found"),
     Waiting("ContainerCreating", ""),
     Waiting("ErrImagePull", "rpc error: manifest unknown"),
     Waiting("ImagePullBackOff", "Back-off pulling image \"web:v9\""),
     Terminated(0, "Completed"), Terminated(1, "Error"), Terminated(137, "OOMKilled"), Terminated(2, "")}

DetectEvents ==
    {ApiEvent("Warning", rm[1], rm[2], t) :
        rm \in {<<"Failed", "Failed to pull image \"web:v9\": manifest unknown: not found">>,
                <<"Failed", "Failed to pull image \"web:v9\": unauthorized: i/o timeout fetching token">>,
                <<"Failed", "Failed to pull image \"web:v9\": not found or unauthorized">>,
                <<"Failed", "Failed to pull image \"web:v9\": i/o timeout">>,
                <<"Failed", "Failed to pull image \"web:v9\": unexpected EOF">>,
                <<"Failed", "Error: ErrImagePull">>,
                <<"BackOff", "Back-off pulling image \"web:v9\"">>},
        t \in {1, 2}}

DetectSpecContainers(name) ==
    {SpecContainer(name, cpu, memory) :
        cpu \in {None, Quantity(500, "m"), Quantity(1, "")},
        memory \in {None, Quantity(1, "Mi")}}

RECURSIVE ListsOf(_, _)
ListsOf(choices(_), n) ==
    IF n = 0 THEN {<<>>}
    ELSE LET shorter == ListsOf(choices, n - 1) IN
         shorter \cup {Append(l, x) : l \in {l \in shorter : Len(l) = n - 1}, x \in choices(ContainerNames[n])}

DetectorPod(statuses, containers) ==
    [name |-> PodName, namespace |-> Namespace, phase |-> "Running", nodeName |-> "node-1",
     containerStatuses |-> statuses, containers |-> containers]

InitDetectors ==
    /\ entry = "detectors"
    /\ env \in
          {[pod |-> DetectorPod(st, <<>>), events |-> <<>>, metrics |-> None] :
              st \in ListsOf(LAMBDA name : {ApiStatus(name, 0, state, None) : state \in DetectStates}, MaxStatuses)}
          \cup {[pod |-> DetectorPod(<<>>, <<>>), events |-> e, metrics |-> None] :
                  e \in SeqsUpTo(DetectEvents, MaxEvents)}
          \cup {[pod |-> DetectorPod(<<>>, sp), events |-> <<>>, metrics |-> m] :
                  sp \in ListsOf(DetectSpecContainers, MaxSpecContainers),
                  m \in {None} \cup {Some(items) : items \in MetricsChoices}}
    /\ rt = NoFetch
    /\ pc = "start"
    /\ loc = None
    /\ out = None

\* detectContainerIssues on the parsed container statuses
DetectContainers ==
    /\ entry = "detectors" /\ pc = "start"
    /\ out' = Some(detectContainerIssues(env.pod, parseContainerStatuses(env.pod.containerStatuses)))
    /\ pc' = "container"
    /\ UNCHANGED <<entry, env, rt, loc>>

\* detectImagePullIssues on the parsed (sorted) events, kept in loc
DetectImagePull ==
    /\ entry = "detectors" /\ pc = "start"
    /\ loc' = Some(parseEvents(env.events))
    /\ out' = Some(detectImagePullIssues(env.pod, parseEvents(env.events)))
    /\ pc' = "imagePull"
    /\ UNCHANGED <<entry, env, rt>>

\* detectResourceIssues on the usage analyzeResourceUsage returns, kept in loc
DetectResources ==
    /\ entry = "detectors" /\ pc = "start"
    /\ loc' = Some(ResourceUsageOf(env.pod, PodName, env.metrics))
    /\ out' = Some(detectResourceIssues(env.pod, ResourceUsageOf(env.pod, PodName, env.metrics)))
    /\ pc' = "resource"
    /\ UNCHANGED <<entry, env, rt>>

NextDetectors == DetectContainers \/ DetectImagePull \/ DetectResources

SpecDetectors == InitDetectors /\ [][NextDetectors]_vars

\* ------------------------------------ normalizeErrorMessage on its own
\* Here a message is the list of its space-separated tokens, and each
\* replace() of normalizeErrorMessage is applied as the regex applies to the
\* text: only the timestamp regex (through its lazy .*?Z) can match across a
\* space.
MaxTokens == 2

Tokens ==
    {"2024-01-15T10:30:00Z", "2024-01-15T10:30:00", "Z", "10.0.0.5:5432", ":8080", "30s", "0x1F",
     "ERROR", "",
     "<timestamp>", "z", "<ip>:<port>", ":<port>", "<num>s", "<num>x<num>f", "error",
     "<num>-<num>-<num>t<num>:<port>:<port>"}

\* /\d{4}-\d{2}-\d{2}[T ]\d{2}:\d{2}:\d{2}.*?Z/g: from a date and time up to
\* the first Z after it, which may be tokens away
RECURSIVE ReplaceTimestamps(_)
ReplaceTimestamps(tokens) ==
    IF tokens = <<>> THEN <<>>
    ELSE IF Head(tokens) = "2024-01-15T10:30:00Z"
    THEN <<"<timestamp>">> \o ReplaceTimestamps(Tail(tokens))
    ELSE LET closing == {j \in 2..Len(tokens) : tokens[j] \in {"2024-01-15T10:30:00Z", "Z"}} IN
         IF Head(tokens) = "2024-01-15T10:30:00" /\ closing # {}
         THEN LET j == CHOOSE j \in closing : \A k \in closing : j <= k
              IN <<"<timestamp>">> \o ReplaceTimestamps(SubSeq(tokens, j + 1, Len(tokens)))
         ELSE <<Head(tokens)>> \o ReplaceTimestamps(Tail(tokens))

\* /\d{1,3}\.\d{1,3}\.\d{1,3}\.\d{1,3}/g
ReplaceIp(token) ==
    IF token = "10.0.0.5:5432" THEN "<ip>:5432" ELSE token

\* /:\d{2,5}/g
ReplacePort(token) ==
    CASE token = "<ip>:5432" -> "<ip>:<port>"
      [] token = ":8080" -> ":<port>"
      [] token = "2024-01-15T10:30:00" -> "2024-01-15T10:<port>:<port>"
      [] OTHER -> token

\* a placeholder that holds a digit
ReplaceNumbers_Numbered(token) ==
    CASE token = "30s" -> "<n1>s"
      [] token = "<n1>s" -> "<n<n1>>s"
      [] OTHER -> token

\* /\d+/g
ReplaceNumbers(token) ==
    CASE token = "30s" -> "<num>s"
      [] token = "0x1F" -> "<num>x<num>F"
      [] token = "2024-01-15T10:<port>:<port>" -> "<num>-<num>-<num>T<num>:<port>:<port>"
      [] OTHER -> token

\* toLowerCase(); the /0x[0-9a-f]+/gi before it finds no 0 left to match
ToLowerCase(token) ==
    CASE token = "Z" -> "z"
      [] token = "ERROR" -> "error"
      [] token = "<num>x<num>F" -> "<num>x<num>f"
      [] token = "<num>-<num>-<num>T<num>:<port>:<port>" -> "<num>-<num>-<num>t<num>:<port>:<port>"
      [] OTHER -> token

\* trim(): the empty tokens at either end are leading and trailing spaces
RECURSIVE TrimTokens(_)
TrimTokens(tokens) ==
    IF tokens = <<>> THEN <<>>
    ELSE IF Head(tokens) = "" THEN TrimTokens(Tail(tokens))
    ELSE IF tokens[Len(tokens)] = "" THEN TrimTokens(SubSeq(tokens, 1, Len(tokens) - 1))
    ELSE tokens

NormalizeTokens(tokens) ==
    LET stamped == ReplaceTimestamps(tokens) IN
    TrimTokens([i \in 1..Len(stamped) |->
                  ToLowerCase(ReplaceNumbers(ReplacePort(ReplaceIp(stamped[i]))))])

InitNormalize ==
    /\ entry = "normalizeErrorMessage"
    /\ env \in {[message |-> m] : m \in SeqsUpTo(Tokens, MaxTokens)}
    /\ rt = NoFetch
    /\ pc = "start"
    /\ loc = None
    /\ out = None

NormalizeOnce ==
    /\ entry = "normalizeErrorMessage" /\ pc = "start"
    /\ out' = Some(NormalizeTokens(env.message))
    /\ pc' = "once"
    /\ UNCHANGED <<entry, env, rt, loc>>

\* the normalized message is normalized again; loc keeps the first result
NormalizeAgain ==
    /\ entry = "normalizeErrorMessage" /\ pc = "once"
    /\ loc' = out
    /\ out' = Some(NormalizeTokens(out.v))
    /\ pc' = "twice"
    /\ UNCHANGED <<entry, env, rt>>

NextNormalize == NormalizeOnce \/ NormalizeAgain

SpecNormalize == InitNormalize /\ [][NextNormalize]_vars

\* ------------------------------------- calculateHealthScore on its own
MaxIssues == 4

Severities == {"critical", "high", "medium", "low", "info"}
ScorePhases == {"Running", "Pending", "Failed", "Unknown", "Succeeded", ""}

InitScore ==
    /\ entry = "calculateHealthScore"
    /\ env \in {[pod |-> [phase |-> ph], issues |-> <<>>] : ph \in ScorePhases}
    /\ rt = NoFetch
    /\ pc = "start"
    /\ loc = None
    /\ out = None

\* the score of the pod with the issues found so far
ScoreCompute ==
    /\ entry = "calculateHealthScore" /\ pc = "start"
    /\ out' = Some(calculateHealthScore(env.pod, env.issues))
    /\ pc' = "done"
    /\ UNCHANGED <<entry, env, rt, loc>>

\* one more issue is found and the score is computed again; loc keeps the
\* score before it
ScoreAddIssue ==
    /\ entry = "calculateHealthScore" /\ pc = "done"
    /\ Len(env.issues) < MaxIssues
    /\ \E severity \in Severities :
          /\ env' = [env EXCEPT !.issues = Append(@, [severity |-> severity])]
          /\ out' = Some(calculateHealthScore(env.pod, env'.issues))
    /\ loc' = out
    /\ UNCHANGED <<entry, rt, pc>>

NextScore == ScoreCompute \/ ScoreAddIssue

SpecScore == InitScore /\ [][NextScore]_vars

\* ------------------------------------------------ utils/cache.ts
\* the clock advances MaxTicks times at most, by a millisecond or by one
\* millisecond less than the default time-to-live
MaxTicks == 3
DefaultTTL == 30000
TickSteps == {1, DefaultTTL - 1}

CacheKeys == {"pods-prod", "pods-dev"}
CacheValues == {"items-1", "items-2"}
\* the ttl argument of set: None when it is left out
TtlChoices == {None, Some(0), Some(1)}

EmptyCache == [k \in CacheKeys |-> None]

\* Date.now() >= entry.expiresAt
IsExpired_AtExpiry(cacheEntry, now) == now >= cacheEntry.expiresAt

\* Date.now() > entry.expiresAt
IsExpired(cacheEntry, now) == now > cacheEntry.expiresAt

\* MemoryCache.get: the value returned, None for undefined
GetValue(cache, key, now) ==
    IF cache[key] = None THEN None
    ELSE IF IsExpired(cache[key].v, now) THEN None
    ELSE Some(cache[key].v.value)

\* MemoryCache.get: the map it leaves, an expired entry deleted
GetEvicts(cache, key, now) ==
    IF cache[key] # None /\ IsExpired(cache[key].v, now) THEN [cache EXCEPT ![key] = None]
    ELSE cache

\* MemoryCache.set: expiresAt = Date.now() + (ttl ?? this.defaultTTL)
SetEntry(cache, key, value, ttl, now) ==
    [cache EXCEPT ![key] = Some([value |-> value,
                                 expiresAt |-> now + (IF ttl = None THEN DefaultTTL ELSE ttl.v)])]

\* out keeps, beside the last call, its time and its result, the arguments and
\* time of the last set of each key that no delete or clear has followed
InitCache ==
    /\ entry = "MemoryCache"
    /\ env = [now |-> 0, ticks |-> 0]
    /\ rt = NoFetch
    /\ pc = "idle"
    /\ loc = [cache |-> EmptyCache]
    /\ out = [call |-> "new", key |-> "", at |-> 0, result |-> None, lastSet |-> [k \in CacheKeys |-> None]]

CacheTick ==
    /\ entry \in {"MemoryCache", "getOrCompute"}
    /\ env.ticks < MaxTicks
    /\ \E step \in TickSteps : env' = [now |-> env.now + step, ticks |-> env.ticks + 1]
    /\ UNCHANGED <<entry, rt, pc, loc, out>>

CacheGet ==
    /\ entry = "MemoryCache"
    /\ \E key \in CacheKeys :
          /\ loc' = [cache |-> GetEvicts(loc.cache, key, env.now)]
          /\ out' = [out EXCEPT !.call = "get", !.at = env.now, !.key = key, !.result = GetValue(loc.cache, key, env.now)]
    /\ UNCHANGED <<entry, env, rt, pc>>

CacheSet ==
    /\ entry = "MemoryCache"
    /\ \E key \in CacheKeys, value \in CacheValues, ttl \in TtlChoices :
          /\ loc' = [cache |-> SetEntry(loc.cache, key, value, ttl, env.now)]
          /\ out' = [out EXCEPT !.call = "set", !.at = env.now, !.key = key, !.result = None,
                                 !.lastSet[key] = Some([value |-> value, ttl |-> ttl, at |-> env.now])]
    /\ UNCHANGED <<entry, env, rt, pc>>

CacheDelete ==
    /\ entry = "MemoryCache"
    /\ \E key \in CacheKeys :
          /\ loc' = [cache |-> [loc.cache EXCEPT ![key] = None]]
          /\ out' = [out EXCEPT !.call = "delete", !.at = env.now, !.key = key, !.result = None, !.lastSet[key] = None]
    /\ UNCHANGED <<entry, env, rt, pc>>

CacheClear ==
    /\ entry = "MemoryCache"
    /\ loc' = [cache |-> EmptyCache]
    /\ out' = [call |-> "clear", key |-> "", at |-> env.now, result |-> None, lastSet |-> [k \in CacheKeys |-> None]]
    /\ UNCHANGED <<entry, env, rt, pc>>

\* cleanup: every entry with now > expiresAt is deleted
CacheCleanup ==
    /\ entry = "MemoryCache"
    /\ loc' = [cache |-> [k \in CacheKeys |->
                            IF loc.cache[k] # None /\ env.now > loc.cache[k].v.expiresAt
                            THEN None ELSE loc.cache[k]]]
    /\ out' = [out EXCEPT !.call = "cleanup", !.at = env.now, !.key = "", !.result = None]
    /\ UNCHANGED <<entry, env, rt, pc>>

NextCache == CacheTick \/ CacheGet \/ CacheSet \/ CacheDelete \/ CacheClear \/ CacheCleanup

SpecCache == InitCache /\ [][NextCache]_vars

\* getOrCompute, called by up to MaxCallers tool calls that may overlap; each
\* caller is idle, awaits its computeFn, or has returned or thrown
MaxCallers == 2
Callers == 1..MaxCallers

InitGetOrCompute ==
    /\ entry = "getOrCompute"
    /\ env = [now |-> 0, ticks |-> 0]
    /\ rt = [c \in Callers |-> [pc |-> "idle", key |-> "", value |-> None]]
    /\ pc = "idle"
    /\ loc = [cache |-> EmptyCache]
    /\ out = None

\* cache.get(key): a hit returns, a miss starts computeFn
GetOrComputeCall ==
    /\ entry = "getOrCompute"
    /\ \E c \in Callers, key \in CacheKeys :
          /\ rt[c].pc = "idle"
          /\ loc' = [cache |-> GetEvicts(loc.cache, key, env.now)]
          /\ rt' = [rt EXCEPT ![c] =
                        IF GetValue(loc.cache, key, env.now) # None
                        THEN [pc |-> "returned", key |-> key, value |-> GetValue(loc.cache, key, env.now)]
                        ELSE [pc |-> "computing", key |-> key, value |-> None]]
    /\ UNCHANGED <<entry, env, pc, out>>

\* computeFn resolves: cache.set(key, value, ttl) with no ttl given, return value
ComputeResolves ==
    /\ entry = "getOrCompute"
    /\ \E c \in Callers, value \in CacheValues :
          /\ rt[c].pc = "computing"
          /\ loc' = [cache |-> SetEntry(loc.cache, rt[c].key, value, None, env.now)]
          /\ rt' = [rt EXCEPT ![c].pc = "returned", ![c].value = Some(value)]
    /\ UNCHANGED <<entry, env, pc, out>>

\* computeFn rejects: the await throws before cache.set
ComputeRejects ==
    /\ entry = "getOrCompute"
    /\ \E c \in Callers :
          /\ rt[c].pc = "computing"
          /\ rt' = [rt EXCEPT ![c].pc = "threw"]
    /\ UNCHANGED <<entry, env, pc, loc, out>>

NextGetOrCompute == CacheTick \/ GetOrComputeCall \/ ComputeResolves \/ ComputeRejects

SpecGetOrCompute == InitGetOrCompute /\ [][NextGetOrCompute]_vars

\* ------------------------------------------------ the four entry points
Init == InitPod \/ InitCrash \/ InitLogs \/ InitCluster

Next == NextPod \/ NextCrash \/ NextLogs \/ NextCluster

Spec == Init /\ [][Next]_vars

\* ------------------------------------------------ the cluster API calls
\* a pod read that restarts the pod
ApiCall_Restart(f) ==
    CASE f = "pod" -> "deleteNamespacedPod"
      [] OTHER -> "listNamespacedPod"

\* the client method behind each fetch of the entry points
ApiCall(f) ==
    CASE f = "pod" -> "readNamespacedPod"
      [] f = "events" -> "listNamespacedEvent"
      [] f = "metrics" -> "getPodMetrics"
      [] f = "log" -> "log"
      [] f = "nodes" -> "listNode"
      [] f = "pods" -> IF env.namespace = "" THEN "listPodForAllNamespaces" ELSE "listNamespacedPod"
      [] OTHER -> "fn"

\* the client methods the tool handlers and the input validation call
ToolCalls ==
    {"readNamespacedPod", "listNamespacedPod", "getPodMetrics", "listNamespacedEvent",
     "listNamespace", "readNamespace"}

\* the HTTP verb of a client method: read* and get* are GET of one object,
\* list* GET of a collection, log the GET of the log subresource
Verb(method) ==
    CASE method \in {"readNamespacedPod", "readNamespace", "getPodMetrics"} -> "get"
      [] method \in {"listNamespacedPod", "listPodForAllNamespaces", "listNamespacedEvent",
                      "listNamespace", "listNode"} -> "list"
      [] method = "log" -> "log"
      [] OTHER -> "write"

\* ------------------------------------------------- claims on withRetry
Op == rt["op"]

RECURSIVE Pow(_, _)
Pow(b, n) == IF n = 0 THEN 1 ELSE b * Pow(b, n - 1)

RetryCount(r) == Cardinality({i \in 1..Len(r.logs) : r.logs[i] = "retrying"})

\* C1: under the default policy an error with a 4xx status code is never
\* retried, whatever else it carries: once an invocation has failed with it,
\* withRetry is done, has thrown that very error, no sleep follows it and no
\* further invocation is made (one invocation and no sleep when it is the
\* first failure).
C1_ClientErrorNeverRetried ==
    (/\ entry = "withRetry"
     /\ Op.opts.shouldRetry = "default"
     /\ Op.opts.maxAttempts >= 1
     /\ Op.lastError # None
     /\ Is4xx(Op.lastError))
    => /\ Op.pc = "done"
       /\ Op.settled = [kind |-> "thrown", error |-> Op.lastError]
       /\ Op.calls = Op.lastError.at
       /\ Len(Op.sleeps) = Op.lastError.at - 1

\* C2: when the operation fails on its first k invocations (k < maxAttempts)
\* and succeeds on invocation k+1, withRetry returns the result of invocation
\* k+1, the operation has been invoked exactly k+1 times and exactly k retries
\* (one log line and one sleep each) were observed.
C2_SuccessAfterRetries ==
    (entry = "withRetry" /\ Op.pc = "done" /\ Op.settled # None /\ Op.settled.kind = "ok")
    => /\ Op.settled.at = Op.calls
       /\ Op.calls <= Op.opts.maxAttempts
       /\ Len(Op.sleeps) = Op.calls - 1
       /\ RetryCount(Op) = Op.calls - 1
       /\ (pc = "done" => out = Op.settled)

C2_Witness ==
    /\ entry = "withRetry" /\ pc = "done"
    /\ out = [kind |-> "ok", at |-> 3]
    /\ Op.calls = 3 /\ RetryCount(Op) = 2 /\ Len(Op.sleeps) = 2

\* C3: when every invocation fails with a retryable error, withRetry
\* (maxAttempts >= 1) invokes the operation exactly maxAttempts times, sleeps
\* exactly maxAttempts - 1 times and throws the error of the final invocation;
\* whenever it throws, the error thrown is the one raised by the last
\* invocation made, never an earlier one.
C3_ExhaustionThrowsLastError ==
    (/\ entry = "withRetry" /\ Op.pc = "done" /\ Op.opts.maxAttempts >= 1
     /\ Op.settled # None /\ Op.settled.kind = "thrown")
    => /\ Op.settled.error # None
       /\ Op.settled.error.at = Op.calls
       /\ ShouldRetry(Op.opts.shouldRetry, Op.settled.error)
            => /\ Op.calls = Op.opts.maxAttempts
               /\ Len(Op.sleeps) = Op.opts.maxAttempts - 1
               /\ RetryCount(Op) = Op.opts.maxAttempts - 1
       /\ (pc = "done" => out = Op.settled)

C3_Witness ==
    /\ entry = "withRetry" /\ pc = "done"
    /\ Op.opts.maxAttempts = 3 /\ Op.calls = 3 /\ Len(Op.sleeps) = 2
    /\ out.kind = "thrown" /\ out.error.at = 3
    /\ DefaultShouldRetry(out.error)

\* C4: the delay slept before the k-th retry is
\* min(initialDelay * backoffMultiplier^(k-1), maxDelay), so no sleep exceeds
\* maxDelay, for all option values.
C4_DelayCapped ==
    entry = "withRetry" =>
        \A k \in 1..Len(Op.sleeps) :
            /\ Op.sleeps[k] = Min(Op.opts.initialDelay * Pow(Op.opts.backoffMultiplier, k - 1),
                                  Op.opts.maxDelay)
            /\ Op.sleeps[k] <= Op.opts.maxDelay

\* ---------------------------------------------- claims on the entry points
PrimaryFetch == IF entry = "analyzeLogs" THEN "log" ELSE "pod"

ErrorPrefixes ==
    CASE entry = "diagnosePod" -> <<"Pod diagnosis failed: ", "Cannot read pod web: ">>
      [] entry = "diagnoseCrashLoop" -> <<"CrashLoop diagnostics failed: ">>
      [] entry = "analyzeLogs" -> <<"Log analysis failed: ">>
      [] OTHER -> <<>>

Failed(f) == rt[f].pc = "done" /\ rt[f].settled.kind = "thrown"
Succeeded(f) == rt[f].pc = "done" /\ rt[f].settled.kind = "ok"

PrimaryFailed ==
    /\ entry \in {"diagnosePod", "diagnoseCrashLoop", "analyzeLogs"}
    /\ Failed(PrimaryFetch)

\* C5: when the primary fetch of diagnosePod, diagnoseCrashLoop or analyzeLogs
\* has failed for good, the entry point never returns a result, partial or
\* not: it is still to settle or it has thrown one error that wraps the
\* fetch's error, in diagnosePod whatever the event fetch does.
C5_PrimaryFailureIsFatal ==
    PrimaryFailed =>
        /\ out = None \/ out = Wrapped(ErrorPrefixes, rt[PrimaryFetch].settled.error)
        /\ pc = "done" <=> out # None
        /\ entry # "analyzeLogs" => loc = None

C5_Witness ==
    /\ entry = "diagnosePod" /\ pc = "done"
    /\ rt["pod"].pc = "done" /\ rt["pod"].settled.kind = "thrown"
    /\ out = Wrapped(<<"Pod diagnosis failed: ", "Cannot read pod web: ">>, rt["pod"].settled.error)
    /\ rt["pod"].calls = 3
    /\ rt["events"].pc = "inflight"

HasIssue(issues, type) == \E i \in 1..Len(issues) : issues[i].type = <<type>>

\* C6: in diagnosePod, once the pod fetch has succeeded, a failed event fetch
\* or metrics fetch never fails the run: the result is returned, with an
\* empty event list and no image-pull, volume or network issue when the
\* events failed, and with no current usage, no usagePercent and both
\* threshold flags false when the metrics failed.
C6_SecondaryFailuresDegrade ==
    (entry = "diagnosePod" /\ pc = "done" /\ Succeeded("pod")) =>
        /\ out.kind = "returned"
        /\ Failed("events") =>
              /\ out.events = <<>>
              /\ ~HasIssue(out.issues, "ImagePullBackOff")
              /\ ~HasIssue(out.issues, "Volume Mount Issue")
              /\ ~HasIssue(out.issues, "Network Configuration Issue")
        /\ Failed("metrics") =>
              /\ out.resources.cpu.current = None /\ out.resources.memory.current = None
              /\ out.resources.cpu.usagePercent = None /\ out.resources.memory.usagePercent = None
              /\ ~out.resources.cpu.isThrottled /\ ~out.resources.memory.isOOMRisk
              /\ ~HasIssue(out.issues, "High CPU Usage") /\ ~HasIssue(out.issues, "OOM Risk")

C6_Witness ==
    /\ entry = "diagnosePod" /\ pc = "done" /\ Succeeded("pod")
    /\ Failed("events") /\ Failed("metrics")
    /\ out.kind = "returned"
    /\ \E i \in 1..Len(env.events) : IsImagePullEvent(env.events[i])
    /\ ResourceUsageOf(env.pod, PodName, Some(env.metrics)).memory.isOOMRisk

DetectorsRun == IF entry = "diagnosePod" /\ loc # None THEN loc.detectorsRun ELSE <<>>
UsedFetches == IF env.metricsApi THEN {"pod", "events", "metrics"} ELSE {"pod", "events"}

\* C7 (as claimed): in diagnosePod the pod, event and metrics fetches are all
\* issued before the function first suspends, and all of them have completed
\* before any detector runs.
C7_AllFetchesJoinedFirst ==
    entry = "diagnosePod" =>
        /\ pc = "join" => \A f \in UsedFetches : rt[f].calls >= 1
        /\ DetectorsRun # <<>> => \A f \in UsedFetches : rt[f].pc = "done"

\* C7 (amended): the pod and event fetches are issued together and both have
\* completed before any detector runs; the metrics fetch is issued only after
\* the container-state and image-pull detectors have run, and it has
\* completed before the resource, volume and network detectors run, after
\* which no fetch is outstanding.
C7_PodAndEventsJoinedFirst ==
    entry = "diagnosePod" =>
        /\ pc = "join" => rt["pod"].calls >= 1 /\ rt["events"].calls >= 1 /\ DetectorsRun = <<>>
        /\ DetectorsRun # <<>> => rt["pod"].pc = "done" /\ rt["events"].pc = "done"
        /\ rt["metrics"].calls >= 1 =>
              Len(DetectorsRun) >= 2 /\ SubSeq(DetectorsRun, 1, 2) = <<"container", "imagePull">>
        /\ "resource" \in Range(DetectorsRun) =>
              /\ DetectorsRun = <<"container", "imagePull", "resource", "volume", "network">>
              /\ \A f \in UsedFetches : rt[f].pc = "done"
              /\ ~env.metricsApi => rt["metrics"].pc = "idle"

C7_Witness ==
    /\ entry = "diagnosePod" /\ pc = "metrics"
    /\ DetectorsRun = <<"container", "imagePull">>
    /\ rt["metrics"].pc = "inflight" /\ rt["metrics"].calls = 1

\* C8: every external fetch of the four entry points runs through the retry
\* executor: a fetch whose only failure is one retryable error on its first
\* invocation is replayed, so no fetch gives up after a single invocation
\* that failed with a retryable error.
C8_TransientFailureReplayed ==
    \A f \in FetchIds \ {"op"} :
        (Failed(f) /\ rt[f].calls = 1) => ~DefaultShouldRetry(rt[f].settled.error)

C9_Qualifies(status) ==
    \/ status.restartCount > 3
    \/ status.state.waiting # None /\ status.state.waiting.reason = "CrashLoopBackOff"

C9_Expected ==
    Filter(env.pod.containerStatuses,
           {c \in Range(env.pod.containerStatuses) :
               (env.containerName = "" \/ c.name = env.containerName) /\ C9_Qualifies(c)})

\* C9: diagnoseCrashLoop returns exactly one critical CrashLoopBackOff issue
\* for each container (restricted to containerName when given) whose
\* restartCount is above 3 or whose waiting reason is CrashLoopBackOff, in
\* container order, and no other issue.
C9_OneIssuePerCrashLoopingContainer ==
    (entry = "diagnoseCrashLoop" /\ pc = "done" /\ out.kind = "returned") =>
        /\ Len(out.issues) = Len(C9_Expected)
        /\ \A i \in 1..Len(out.issues) :
              /\ out.issues[i].type = <<"CrashLoopBackOff">>
              /\ out.issues[i].severity = "critical"
              /\ out.issues[i].message[2] = C9_Expected[i].name

C9_Witness ==
    /\ entry = "diagnoseCrashLoop" /\ pc = "done" /\ out.kind = "returned"
    /\ Len(env.pod.containerStatuses) = 1
    /\ env.pod.containerStatuses[1].restartCount = 6
    /\ env.pod.containerStatuses[1].state = Running
    /\ Len(out.issues) = 1

C10_RootCause(exitCode) ==
    CASE exitCode = 0 -> <<"Container exited normally but keeps restarting due to restart policy">>
      [] exitCode = 1 -> <<"Application error caused termination">>
      [] exitCode = 137 -> <<"OOM (Out Of Memory) - Container was killed due to insufficient memory">>
      [] exitCode = 143 -> <<"Terminated by SIGTERM - Received normal termination signal">>
      [] exitCode = 126 -> <<"Permission denied - Executable file lacks execute permission">>
      [] exitCode = 127 -> <<"Command not found - CMD/ENTRYPOINT command does not exist">>
      [] OTHER -> <<"Unknown error (exit code ", ToString(exitCode), ")">>

C10_StatusOf(issue) ==
    CHOOSE c \in Range(env.pod.containerStatuses) : c.name = issue.message[2]

\* C10: the root cause of a crash-loop issue is the fixed-table entry for the
\* container's last-terminated exit code, whatever the container's name, its
\* restart count and the outcome of the log fetch; exit code 137 always gives
\* the OOM root cause and the solution to increase the memory limit.
C10_RootCauseByExitCode ==
    (entry = "diagnoseCrashLoop" /\ loc # None) =>
        \A i \in 1..Len(loc.issues) :
            LET issue == loc.issues[i]
                last == C10_StatusOf(issue).lastState
            IN last # None =>
                  /\ issue.rootCause = C10_RootCause(last.terminated.exitCode)
                  /\ last.terminated.exitCode = 137 =>
                        issue.solution = <<"Increase memory limit or optimize application memory usage">>

C10_Witness ==
    /\ entry = "diagnoseCrashLoop" /\ pc = "done" /\ out.kind = "returned"
    /\ \E i \in 1..Len(out.issues) :
          /\ out.issues[i].rootCause = <<"OOM (Out Of Memory) - Container was killed due to insufficient memory">>
          /\ out.issues[i].message[2] = "sidecar"
          /\ out.issues[i].relevantLogs = None

C11_Qualifying(n) ==
    {j \in 1..n : /\ Selected(env.pod.containerStatuses[j], env.containerName)
                  /\ (\/ env.pod.containerStatuses[j].restartCount > 3
                      \/ env.pod.containerStatuses[j].state = Waiting("CrashLoopBackOff", "back-off restarting failed container"))}

C11_Keywords == {"error", "exception", "fatal", "panic"}

C11_Matching(received) ==
    {k \in 1..Len(received) : LogLineKeywords(received[k]) \cap C11_Keywords # {}}

\* the issue pushed when the log fetch of the container at loc.i has settled
C11_IssuePushed ==
    LET issue == loc'.issues[Len(loc'.issues)]
        kept == IF issue.relevantLogs = None THEN <<>> ELSE issue.relevantLogs.v
        matching == C11_Matching(loc.logData)
    IN /\ Len(loc'.issues) = Len(loc.issues) + 1
       /\ SubSeq(loc'.issues, 1, Len(loc.issues)) = loc.issues
       /\ issue.type = <<"CrashLoopBackOff">>
       /\ issue.message[2] = loc.statuses[loc.i].name
       /\ rt["log"].settled.kind = "thrown" <=> issue.relevantLogs = None
       /\ Len(kept) <= 10
       /\ issue.relevantLogs # None =>
              Len(kept) = (IF Cardinality(matching) < 10 THEN Cardinality(matching) ELSE 10)
       /\ \A k \in 1..Len(kept) :
              /\ LogLineKeywords(kept[k]) \cap C11_Keywords # {}
              /\ \E m \in matching :
                    /\ kept[k] = Trim(loc.logData[m])
                    /\ Cardinality({x \in matching : x < m}) = k - 1
       /\ pc' = "done" => out'.kind = "returned"

C12_PhaseDeduction(phase) ==
    CASE phase = "Failed" -> 100 [] phase = "Pending" -> 30 [] phase = "Unknown" -> 50 [] OTHER -> 0

C12_Weight(severity) ==
    CASE severity = "critical" -> 30 [] severity = "high" -> 20 [] severity = "medium" -> 10
      [] severity = "low" -> 5 [] OTHER -> 0

RECURSIVE C12_Deductions(_)
C12_Deductions(issues) ==
    IF issues = <<>> THEN 0 ELSE C12_Weight(Head(issues).severity) + C12_Deductions(Tail(issues))

\* C12: the pod health score is max(0, min(100, 100 - phaseDeduction - sum
\* of the severity weights)); it is an integer in 0..100 for every phase and
\* issue list, 0 whenever the phase is Failed, and never higher after one
\* more issue.
C12_HealthScoreClamped ==
    (entry = "calculateHealthScore" /\ pc = "done") =>
        LET raw == 100 - C12_PhaseDeduction(env.pod.phase) - C12_Deductions(env.issues) IN
        /\ out.v = (IF raw < 0 THEN 0 ELSE IF raw > 100 THEN 100 ELSE raw)
        /\ out.v \in 0..100
        /\ env.pod.phase = "Failed" => out.v = 0
        /\ loc # None => out.v <= loc.v

C12_Witness ==
    /\ entry = "calculateHealthScore" /\ pc = "done"
    /\ env.pod.phase = "Pending"
    /\ Len(env.issues) = 3 /\ \A i \in 1..3 : env.issues[i].severity = "critical"
    /\ loc = Some(10) /\ out = Some(0)

\* C13: the overallScore that diagnoseClusterHealth returns is a number
\* within 0..100 for every cluster snapshot, those with no node or with no
\* pod in scope included.
C13_OverallScoreInRange ==
    (entry = "diagnoseClusterHealth" /\ pc = "done" /\ out.kind = "returned") =>
        /\ out.overallScore # NaN
        /\ out.overallScore.num >= 0
        /\ out.overallScore.num <= 100 * out.overallScore.den

\* C14: in every ResourceUsage that diagnosePod returns, for cpu and memory
\* alike, usagePercent is defined iff the current usage is known and the
\* limit is above 0; isThrottled holds iff the cpu usagePercent is defined
\* and at least 80, isOOMRisk iff the memory usagePercent is defined and at
\* least 90.
C14_UsagePercentAndFlags ==
    (entry = "diagnosePod" /\ pc = "done" /\ out.kind = "returned") =>
        LET cpu == out.resources.cpu
            memory == out.resources.memory
        IN /\ cpu.usagePercent # None <=> (cpu.current # None /\ cpu.limit > 0)
           /\ memory.usagePercent # None <=> (memory.current # None /\ memory.limit > 0)
           /\ cpu.isThrottled <=>
                 (cpu.usagePercent # None /\ cpu.usagePercent.v.num >= 80 * cpu.usagePercent.v.den)
           /\ memory.isOOMRisk <=>
                 (memory.usagePercent # None /\ memory.usagePercent.v.num >= 90 * memory.usagePercent.v.den)
           /\ cpu.usagePercent # None => cpu.usagePercent.v.num = 100 * cpu.current.v
                                          /\ cpu.usagePercent.v.den = cpu.limit

C14_Witness ==
    /\ entry = "diagnosePod" /\ pc = "done" /\ out.kind = "returned"
    /\ out.resources.cpu.current = Some(800) /\ out.resources.cpu.limit = 1000
    /\ out.resources.cpu.isThrottled
    /\ out.resources.memory.isOOMRisk

C16_Analysed == Filter(loc.logData, {l \in Range(loc.logData) : l # "   "})

C16_Catalog ==
    {"Connection Refused", "Database Connection Error", "Out of Memory", "File Not Found",
     "Permission Denied", "DNS Resolution Failed", "Port Already in Use", "Timeout",
     "Null Pointer / Undefined", "SSL/TLS Error"}

C16_LinesMatching(name) == {i \in 1..Len(C16_Analysed) : name \in MatchingSignatures(C16_Analysed[i])}

C16_MatchesOf(name) == {k \in 1..Len(out.patterns) : out.patterns[k].name = name}

\* C16: analyzeLogs returns a PatternMatch for a catalog signature iff some
\* analysed line matches it, one match per signature, whose matchedLines is
\* the ascending list of the 1-based numbers of all the analysed lines that
\* match it; a log of 15 database-connection lines and 8 timeout lines gives
\* exactly two matches, of 15 and of 8 lines.
C16_PatternMatches ==
    (entry = "analyzeLogs" /\ pc = "done" /\ out.kind = "returned") =>
        /\ \A k \in 1..Len(out.patterns) : out.patterns[k].name \in C16_Catalog
        /\ \A name \in C16_Catalog :
              /\ Cardinality(C16_MatchesOf(name)) = (IF C16_LinesMatching(name) = {} THEN 0 ELSE 1)
              /\ \A k \in C16_MatchesOf(name) :
                    LET matched == out.patterns[k].matchedLines IN
                    /\ Range(matched) = C16_LinesMatching(name)
                    /\ \A a, b \in 1..Len(matched) : a < b => matched[a] < matched[b]
        /\ (/\ Cardinality(C16_LinesMatching("Database Connection Error")) = 15
            /\ Cardinality(C16_LinesMatching("Timeout")) = 8
            /\ \A i \in 1..Len(C16_Analysed) :
                  MatchingSignatures(C16_Analysed[i]) \subseteq {"Database Connection Error", "Timeout"})
             => /\ Len(out.patterns) = 2
                /\ Len(out.patterns[1].matchedLines) = 15
                /\ Len(out.patterns[2].matchedLines) = 8

C16_Witness ==
    /\ entry = "analyzeLogs" /\ pc = "done" /\ out.kind = "returned"
    /\ Len(C16_Analysed) = 23
    /\ Len(out.patterns) = 2
    /\ out.patterns[1].name = "Database Connection Error" /\ Len(out.patterns[1].matchedLines) = 15
    /\ out.patterns[2].name = "Timeout" /\ Len(out.patterns[2].matchedLines) = 8

C17_Rank(severity) ==
    CASE severity = "critical" -> 4 [] severity = "high" -> 3 [] severity = "medium" -> 2
      [] severity = "low" -> 1 [] OTHER -> 0

C17_Highest(patterns) ==
    {k \in 1..Len(patterns) :
        \A j \in 1..Len(patterns) : C17_Rank(patterns[j].severity) <= C17_Rank(patterns[k].severity)}

\* C17 (as claimed): whenever analyzeLogs matches signatures of different
\* severities, its first recommendation refers to a signature of the highest
\* matched severity.
C17_FirstRecommendsHighestSeverity ==
    (/\ entry = "analyzeLogs" /\ pc = "done" /\ out.kind = "returned"
     /\ \E j, k \in 1..Len(out.patterns) : out.patterns[j].severity # out.patterns[k].severity) =>
        LET first == out.recommendations[1] IN
        \/ first.kind = "critical"
        \/ /\ first.kind = "pattern"
           /\ \E k \in C17_Highest(out.patterns) : out.patterns[k].name = first.about

\* C17 (amended): when a critical signature is matched the first
\* recommendation is the one about the critical matches, giving their
\* number; otherwise it is about the most repeated error when there is one,
\* and else about the first matched signature in catalog order, whatever its
\* severity; with nothing found it is the single no-issues recommendation.
C17_CriticalThenRepeatedThenCatalogOrder ==
    (entry = "analyzeLogs" /\ pc = "done" /\ out.kind = "returned") =>
        LET first == out.recommendations[1]
            critical == {k \in 1..Len(out.patterns) : out.patterns[k].severity = "critical"}
        IN IF critical # {}
           THEN first = [kind |-> "critical", about |-> ToString(Cardinality(critical))]
           ELSE IF out.repeatedErrors # <<>>
           THEN first = [kind |-> "repeated", about |-> out.repeatedErrors[1].message]
           ELSE IF out.patterns # <<>>
           THEN first = [kind |-> "pattern", about |-> out.patterns[1].name]
           ELSE out.recommendations = << [kind |-> "none", about |-> ""] >>

C17_Witness ==
    /\ entry = "analyzeLogs" /\ pc = "done" /\ out.kind = "returned"
    /\ \E j, k \in 1..Len(out.patterns) :
          /\ out.patterns[j].name = "Database Connection Error" /\ out.patterns[j].severity = "critical"
          /\ out.patterns[k].name = "Timeout" /\ out.patterns[k].severity = "medium"
    /\ out.recommendations[1] = [kind |-> "critical", about |-> "1"]

C18_Sharing(message) ==
    {k \in 1..Len(out.errorLines) : normalizeErrorMessage(out.errorLines[k].content) = message}

\* C18: every RepeatedError that analyzeLogs emits has a count of at least
\* 3 that equals the number of error lines sharing its normalized key, with
\* firstLine <= lastLine the first and last of them; every key shared by 3
\* error lines or more is emitted once, none shared by fewer is, and the
\* list is sorted by count in non-increasing order.
C18_RepeatedErrors ==
    (entry = "analyzeLogs" /\ pc = "done" /\ out.kind = "returned") =>
        LET repeated == out.repeatedErrors IN
        /\ \A n \in 1..Len(repeated) :
              LET lineNumbers == {out.errorLines[k].lineNumber : k \in C18_Sharing(repeated[n].message)} IN
              /\ repeated[n].count >= 3
              /\ repeated[n].count = Cardinality(C18_Sharing(repeated[n].message))
              /\ repeated[n].firstLine <= repeated[n].lastLine
              /\ repeated[n].firstLine \in lineNumbers /\ repeated[n].lastLine \in lineNumbers
              /\ \A x \in lineNumbers : repeated[n].firstLine <= x /\ x <= repeated[n].lastLine
              /\ \A m \in 1..Len(repeated) : m # n => repeated[m].message # repeated[n].message
        /\ \A n \in 1..(Len(repeated) - 1) : repeated[n].count >= repeated[n + 1].count
        /\ \A k \in 1..Len(out.errorLines) :
              LET key == normalizeErrorMessage(out.errorLines[k].content) IN
              (\E n \in 1..Len(repeated) : repeated[n].message = key) <=> Cardinality(C18_Sharing(key)) >= 3

C18_Witness ==
    /\ entry = "analyzeLogs" /\ pc = "done" /\ out.kind = "returned"
    /\ Len(out.errorLines) = 9
    /\ Len(out.repeatedErrors) = 2
    /\ out.repeatedErrors[1].message = "error: connect econnrefused <ip>:<port>"
    /\ out.repeatedErrors[1].count = 4 /\ out.repeatedErrors[1].firstLine = 2
    /\ out.repeatedErrors[2].count = 3 /\ out.repeatedErrors[2].firstLine = 1

\* C19: normalizing an already normalized message gives the same message:
\* normalizeErrorMessage(normalizeErrorMessage(m)) = normalizeErrorMessage(m).
C19_NormalizeIdempotent ==
    (entry = "normalizeErrorMessage" /\ pc = "twice") => out = loc

C19_Witness ==
    /\ entry = "normalizeErrorMessage" /\ pc = "twice"
    /\ env.message = <<"2024-01-15T10:30:00", "30s">>
    /\ loc = Some(<<"<num>-<num>-<num>t<num>:<port>:<port>", "<num>s">>)
    /\ out = loc

C20_Populated(state) ==
    Cardinality({v \in {"running", "waiting", "terminated"} : state[v] # None})

\* C20: every ContainerStatus in a diagnosePod result has exactly one of
\* state.running, state.waiting and state.terminated populated, for every
\* container status the cluster API can return; a Terminated{exitCode: 1}
\* input is read back with the terminated variant alone.
C20_ExactlyOneStateVariant ==
    (entry = "diagnosePod" /\ pc = "done" /\ out.kind = "returned") =>
        \A i \in 1..Len(out.containers) :
            /\ C20_Populated(out.containers[i].state) = 1
            /\ env.pod.containerStatuses[i].state = Terminated(1, "Error") =>
                  out.containers[i].state = Terminated(1, "Error")

C21_Cluster ==
    CASE entry = "diagnosePod" -> <<env.pod, env.events, env.metrics>>
      [] entry = "diagnoseCrashLoop" -> <<env.pod>>
      [] entry = "analyzeLogs" -> <<env.log>>
      [] OTHER -> <<env.nodes, env.pods>>

\* C21: no entry point and no tool ever issues a mutating cluster call: in
\* every step, retries and failing runs included, each client method that is
\* invoked is a get, a list or a log read, and the cluster's pods, events,
\* metrics, logs and nodes are left as they were.
C21_ReadOnly ==
    /\ [][/\ C21_Cluster' = C21_Cluster
          /\ \A f \in FetchIds \ {"op"} :
                rt'[f].calls > rt[f].calls => Verb(ApiCall(f)) \in {"get", "list", "log"}]_vars
    /\ [](\A method \in ToolCalls : Verb(method) \in {"get", "list", "log"})

C21_Witness ==
    /\ entry = "diagnoseCrashLoop" /\ pc = "done" /\ out.kind = "returned"
    /\ rt["pod"].calls = 2 /\ rt["log"].calls = 2
    /\ rt["log"].settled.kind = "thrown"

C22_IsPullWait(state) ==
    state # None /\ state.waiting # None /\ state.waiting.reason \in {"ErrImagePull", "ImagePullBackOff"}

C22_IsOtherWait(state) ==
    state # None /\ state.waiting # None /\ ~C22_IsPullWait(state)

C22_IsFailedExit(state) ==
    state # None /\ state.terminated # None /\ state.terminated.exitCode # 0

C22_IssuesOf(name) == {j \in 1..Len(out.v) : out.v[j].message[2] = name}

\* C22: detectContainerIssues returns exactly one high-severity issue for each
\* container waiting with a reason other than ErrImagePull/ImagePullBackOff,
\* exactly one high-severity issue for each container terminated with a
\* non-zero exit code, and no issue for a running container, an exit code 0,
\* an image pull wait or a status without state; the solution is the table's
\* entry for the reason or exit code, or the fallback text for any other key.
C22_ContainerIssues ==
    (entry = "detectors" /\ pc = "container") =>
        /\ \A i \in 1..Len(env.pod.containerStatuses) :
              LET s == env.pod.containerStatuses[i]
                  mine == C22_IssuesOf(s.name)
              IN  IF C22_IsOtherWait(s.state)
                  THEN /\ Cardinality(mine) = 1
                       /\ \A j \in mine :
                             /\ out.v[j].type = <<"Container Waiting: ", s.state.waiting.reason>>
                             /\ out.v[j].severity = "high"
                             /\ out.v[j].solution =
                                   << CASE s.state.waiting.reason = "CreateContainerConfigError" ->
                                             "Check container configuration (ConfigMap, Secret, etc.)"
                                        [] s.state.waiting.reason = "InvalidImageName" ->
                                             "Verify image name format"
                                        [] s.state.waiting.reason = "CreateContainerError" ->
                                             "Check container creation settings"
                                        [] OTHER -> "Check logs and events to identify the cause" >>
                  ELSE IF C22_IsFailedExit(s.state)
                  THEN /\ Cardinality(mine) = 1
                       /\ \A j \in mine :
                             /\ out.v[j].type = <<"Container Terminated">>
                             /\ out.v[j].severity = "high"
                             /\ out.v[j].solution =
                                   CASE s.state.terminated.exitCode = 1 ->
                                          <<"Check application logs to fix errors">>
                                     [] s.state.terminated.exitCode = 137 ->
                                          <<"Increase memory limit (OOM killed)">>
                                     [] s.state.terminated.exitCode = 143 ->
                                          <<"Verify graceful shutdown implementation">>
                                     [] s.state.terminated.exitCode = 126 ->
                                          <<"Check executable permissions (chmod +x)">>
                                     [] s.state.terminated.exitCode = 127 ->
                                          <<"Verify CMD/ENTRYPOINT path">>
                                     [] OTHER ->
                                          <<"Check logs for exit code ", ToString(s.state.terminated.exitCode)>>
                  ELSE mine = {}
        /\ \A j \in 1..Len(out.v) :
              \E i \in 1..Len(env.pod.containerStatuses) :
                  out.v[j].message[2] = env.pod.containerStatuses[i].name

\* a mapped wait beside an unmapped exit code: one issue each, table entry and fallback
C22_Witness ==
    /\ entry = "detectors" /\ pc = "container"
    /\ Len(env.pod.containerStatuses) = 2
    /\ env.pod.containerStatuses[1].state = Waiting("CreateContainerConfigError", "secret \"db\" not found")
    /\ env.pod.containerStatuses[2].state = Terminated(2, "")
    /\ Len(out.v) = 2
    /\ out.v[1].solution = <<"Check container configuration (ConfigMap, Secret, etc.)">>
    /\ out.v[2].solution = <<"Check logs for exit code ", "2">>

C23_Matches(e) == e.reason = "Failed" /\ "pull" \in Substrings(e.message)

C23_RootCause(message) ==
    IF {"not found", "manifest unknown"} \cap Substrings(message) # {} THEN "Image or tag does not exist"
    ELSE IF {"unauthorized", "authentication"} \cap Substrings(message) # {}
      THEN "Image registry authentication failed"
    ELSE IF "timeout" \in Substrings(message) THEN "Network timeout - Cannot access registry"
    ELSE "Cannot download image"

\* C23: detectImagePullIssues returns a critical ImagePullBackOff issue iff
\* some event has reason Failed and a message containing "pull"; it returns
\* at most one issue, whose only related event is a matching event no older
\* than any other matching event, and whose root cause is chosen from that
\* event's message: image or tag not found first, then registry
\* authentication, then network timeout.
C23_ImagePullIssue ==
    (entry = "detectors" /\ pc = "imagePull") =>
        LET matching == {i \in 1..Len(env.events) : C23_Matches(env.events[i])} IN
        /\ Len(out.v) = IF matching = {} THEN 0 ELSE 1
        /\ \A j \in 1..Len(out.v) :
              /\ out.v[j].type = <<"ImagePullBackOff">>
              /\ out.v[j].severity = "critical"
              /\ Len(out.v[j].relatedEvents.v) = 1
              /\ LET event == out.v[j].relatedEvents.v[1] IN
                  /\ \E i \in matching :
                        /\ env.events[i].message = event.message
                        /\ env.events[i].lastTimestamp = event.lastTimestamp
                  /\ \A i \in matching : env.events[i].lastTimestamp <= event.lastTimestamp
                  /\ out.v[j].rootCause = <<C23_RootCause(event.message)>>

\* an older timeout event listed before a newer one that names both a
\* missing image and an authentication failure
C23_Witness ==
    /\ entry = "detectors" /\ pc = "imagePull"
    /\ Len(env.events) = 2
    /\ env.events[1].message = "Failed to pull image \"web:v9\": i/o timeout"
    /\ env.events[1].lastTimestamp = 1
    /\ env.events[2].message = "Failed to pull image \"web:v9\": not found or unauthorized"
    /\ env.events[2].lastTimestamp = 2
    /\ Len(out.v) = 1
    /\ out.v[1].rootCause = <<"Image or tag does not exist">>
    /\ out.v[1].relatedEvents.v[1].lastTimestamp = 2

\* a limit quantity of the pod spec in millicores resp. bytes
C24_Amount(q) ==
    IF q = None THEN 0
    ELSE CASE q.unit = "m" -> q.num
           [] q.unit = "" -> q.num * 1000
           [] q.unit = "Mi" -> q.num * 1024 * 1024

C24_CpuLimit == SeqSum([i \in 1..Len(env.pod.containers) |-> C24_Amount(env.pod.containers[i].limits.cpu)])
C24_MemoryLimit == SeqSum([i \in 1..Len(env.pod.containers) |-> C24_Amount(env.pod.containers[i].limits.memory)])

C24_Emitted(type, severity) ==
    /\ \E j \in 1..Len(out.v) : out.v[j].type = <<type>>
    /\ \A j \in 1..Len(out.v) : out.v[j].type = <<type>> => out.v[j].severity = severity
    /\ Cardinality({j \in 1..Len(out.v) : out.v[j].type = <<type>>}) = 1

\* C24: detectResourceIssues returns "Missing CPU Limit" (medium) iff the CPU
\* limits of the pod's containers sum to nothing and "Missing Memory Limit"
\* (high) iff their memory limits do; it returns "High CPU Usage" (high) iff
\* the measured CPU usage is at least 80% of the summed limit and "OOM Risk"
\* (critical) iff the measured memory usage is at least 90% of the summed
\* limit; "OOM Risk" and "Missing Memory Limit" never come together.
C24_ResourceIssues ==
    (entry = "detectors" /\ pc = "resource") =>
        LET usage == loc.v IN
        /\ C24_Emitted("Missing CPU Limit", "medium") <=> C24_CpuLimit = 0
        /\ C24_Emitted("Missing Memory Limit", "high") <=> C24_MemoryLimit = 0
        /\ C24_Emitted("High CPU Usage", "high") <=>
              /\ usage.cpu.current # None /\ C24_CpuLimit > 0
              /\ usage.cpu.current.v * 100 >= 80 * C24_CpuLimit
        /\ C24_Emitted("OOM Risk", "critical") <=>
              /\ usage.memory.current # None /\ C24_MemoryLimit > 0
              /\ usage.memory.current.v * 100 >= 90 * C24_MemoryLimit
        /\ ~(C24_Emitted("OOM Risk", "critical") /\ C24_Emitted("Missing Memory Limit", "high"))
        /\ \A j \in 1..Len(out.v) :
              out.v[j].type[1] \in {"Missing CPU Limit", "Missing Memory Limit", "High CPU Usage", "OOM Risk"}
                 => C24_Emitted(out.v[j].type[1], out.v[j].severity)

\* the limit is on the second container only, and usage is at exactly 80% of it
C24_Witness ==
    /\ entry = "detectors" /\ pc = "resource"
    /\ Len(env.pod.containers) = 2
    /\ env.pod.containers[1].limits.cpu = None
    /\ env.pod.containers[2].limits.cpu = Quantity(1, "")
    /\ loc.v.cpu.current = Some(800)
    /\ C24_Emitted("High CPU Usage", "high")
    /\ C24_Emitted("Missing Memory Limit", "high")
    /\ ~C24_Emitted("Missing CPU Limit", "medium")

C25_Pending == {i \in 1..Len(PodsServed) : PodsServed[i].phase = "Pending"}

C25_CrashLooping ==
    {i \in 1..Len(PodsServed) :
        \E k \in 1..Len(PodsServed[i].containerStatuses) :
            LET c == PodsServed[i].containerStatuses[k] IN
            \/ c.state # None /\ c.state.waiting # None /\ c.state.waiting.reason = "CrashLoopBackOff"
            \/ c.restartCount > 5}

C25_NotReady ==
    {i \in 1..Len(env.nodes) :
        ~\E k \in 1..Len(env.nodes[i].conditions) :
            env.nodes[i].conditions[k] = Condition("Ready", "True")}

C25_PodIssues(type) == {j \in 1..Len(out.podHealth.issues) : out.podHealth.issues[j].type = <<type>>}

\* C25: a diagnoseClusterHealth result holds min(5, number of pending pods)
\* "Pod Pending" issues and min(5, number of crash-looping pods) pod-level
\* "CrashLoopBackOff" issues, while podHealth.pending, podHealth.crashLooping
\* and the score's deduction of 5 per crash-looping pod count every such pod,
\* and it holds exactly one critical "Node Not Ready" issue for each node
\* that is not ready and no other node issue.
C25_CapsAndFullCounts ==
    (entry = "diagnoseClusterHealth" /\ pc = "done" /\ out.kind = "returned") =>
        /\ Cardinality(C25_PodIssues("Pod Pending")) = Min(5, Cardinality(C25_Pending))
        /\ Cardinality(C25_PodIssues("CrashLoopBackOff")) = Min(5, Cardinality(C25_CrashLooping))
        /\ out.podHealth.stats.pending = Cardinality(C25_Pending)
        /\ out.podHealth.stats.crashLooping = Cardinality(C25_CrashLooping)
        /\ Len(out.nodeHealth.issues) = Cardinality(C25_NotReady)
        /\ \A i \in C25_NotReady :
              Cardinality({j \in 1..Len(out.nodeHealth.issues) :
                              /\ out.nodeHealth.issues[j].type = <<"Node Not Ready">>
                              /\ out.nodeHealth.issues[j].severity = "critical"
                              /\ out.nodeHealth.issues[j].resource.name = env.nodes[i].name}) = 1
        /\ out.overallScore # NaN =>
              LET nodes == Len(env.nodes)
                  pods == Len(PodsServed)
                  running == Cardinality({i \in 1..pods : PodsServed[i].phase = "Running"})
                  den == 10 * nodes * pods
                  deduction == 5 * Cardinality(C25_CrashLooping)
                               + 10 * Cardinality(C25_NotReady)
                               + 10 * Cardinality(C25_PodIssues("CrashLoopBackOff"))
                               + 5 * Cardinality(C25_PodIssues("Pod Pending"))
                  score == 100 * den - 500 * Cardinality(C25_NotReady) * pods
                           - 300 * (pods - running) * nodes - deduction * den
              IN out.overallScore = [nan |-> FALSE, num |-> Max(0, Min(100 * den, score)), den |-> den]

\* six crash-looping pods on one ready node: five issues, a count of six and
\* a score of 100 - 6 * 5 - 5 * 10 = 20
C25_Witness ==
    /\ entry = "diagnoseClusterHealth" /\ pc = "done" /\ out.kind = "returned"
    /\ Cardinality(C25_CrashLooping) = 6 /\ Cardinality(C25_Pending) = 0
    /\ Cardinality(C25_PodIssues("CrashLoopBackOff")) = 5
    /\ out.podHealth.stats.crashLooping = 6
    /\ out.overallScore # NaN
    /\ out.overallScore.num = 20 * out.overallScore.den

\* six pods qualify on either side and two of three nodes are not ready
C25_WitnessPending ==
    /\ entry = "diagnoseClusterHealth" /\ pc = "done" /\ out.kind = "returned"
    /\ Cardinality(C25_Pending) = 6 /\ Cardinality(C25_CrashLooping) = 6
    /\ Cardinality(C25_PodIssues("Pod Pending")) = 5
    /\ out.podHealth.stats.pending = 6
    /\ Len(out.nodeHealth.issues) = 2

\* the time-to-live of a set call whose ttl argument is ttl
C26_Ttl(ttl) == IF ttl = None THEN 30000 ELSE ttl.v

\* C26: get(k) returns the value of the last set(k, v, ttl), made at time t
\* and followed by no delete or clear of k, whenever the time is at most
\* t + ttl (the default of 30000 ms when ttl is left out); at any later time,
\* and when there is no such set, it returns undefined and leaves the cache
\* without an entry for k.
C26_GetWithinExpiry ==
    (entry = "MemoryCache" /\ out.call = "get") =>
        LET last == out.lastSet[out.key] IN
        IF last # None /\ out.at <= last.v.at + C26_Ttl(last.v.ttl)
        THEN out.result = Some(last.v.value)
        ELSE out.result = None /\ loc.cache[out.key] = None

\* a value set with the default ttl at time 1 and read at time 30001, the
\* last millisecond of its life
C26_Witness ==
    /\ entry = "MemoryCache" /\ out.call = "get"
    /\ out.lastSet[out.key] = Some([value |-> "items-2", ttl |-> None, at |-> 1])
    /\ out.at = 30001
    /\ out.result = Some("items-2")

\* a value set at time 0 and read at time 30001: gone and evicted
C26_WitnessExpired ==
    /\ entry = "MemoryCache" /\ out.call = "get"
    /\ out.lastSet[out.key] = Some([value |-> "items-2", ttl |-> None, at |-> 0])
    /\ out.at = 30001
    /\ out.result = None /\ loc.cache[out.key] = None

\* C29: among getOrCompute calls on one key that overlap, computeFn runs at
\* most once (no two callers await a computeFn for the same key at the same
\* time) and the callers that have returned hold the same value.
C29_ComputedOnceForOverlappingCalls ==
    entry = "getOrCompute" =>
        \A c1, c2 \in Callers :
            (c1 # c2 /\ rt[c1].key = rt[c2].key) =>
                /\ ~(rt[c1].pc = "computing" /\ rt[c2].pc = "computing")
                /\ (rt[c1].pc = "returned" /\ rt[c2].pc = "returned" /\ env.ticks = 0)
                      => rt[c1].value = rt[c2].value

C27_PullWaits ==
    {i \in 1..Len(env.pod.containerStatuses) :
        LET state == env.pod.containerStatuses[i].state IN
        /\ state # None /\ state.waiting # None
        /\ state.waiting.reason \in {"ErrImagePull", "ImagePullBackOff"}}

\* C27: whenever a container of the pod waits with reason ErrImagePull or
\* ImagePullBackOff, the issues diagnosePod returns hold an image pull issue,
\* whatever the events are and whether or not their fetch succeeded.
C27_PullWaitReported ==
    (entry = "diagnosePod" /\ pc = "done" /\ out.kind = "returned") =>
        (C27_PullWaits # {} => HasIssue(out.issues, "ImagePullBackOff"))

C28_Issues ==
    IF pc = "done" /\ out.kind = "returned"
    THEN CASE entry \in {"diagnosePod", "diagnoseCrashLoop"} -> out.issues
           [] entry = "diagnoseClusterHealth" -> out.nodeHealth.issues \o out.podHealth.issues
           [] OTHER -> <<>>
    ELSE <<>>

C28_NonEmpty(text) == \E i \in 1..Len(text) : text[i] # ""

\* C28: every issue that diagnosePod, diagnoseCrashLoop or
\* diagnoseClusterHealth returns has a severity among critical, high, medium,
\* low and info, a root cause that is not the empty string and a solution
\* that is not the empty string.
C28_IssuesWellFormed ==
    \A i \in 1..Len(C28_Issues) :
        /\ C28_Issues[i].severity \in {"critical", "high", "medium", "low", "info"}
        /\ C28_NonEmpty(C28_Issues[i].rootCause)
        /\ C28_NonEmpty(C28_Issues[i].solution)

\* C30: the relevantLogs of an issue diagnoseCrashLoop returns are the
\* first ten keyword lines of the previous log of the issue's own container
\* as the successful fetch attempt delivered it, with nothing that a failed
\* attempt wrote before it and nothing of another container.
C30_LogsOfSuccessfulAttemptOnly ==
    (entry = "diagnoseCrashLoop" /\ pc = "done" /\ out.kind = "returned") =>
        \A i \in 1..Len(out.issues) :
            out.issues[i].relevantLogs # None =>
                out.issues[i].relevantLogs.v = Slice10(RelevantLines(PreviousLog(out.issues[i].message[2])))

====
